---- MODULE Spec2Model ----
(***************************************************************************)
(* Interval total return of A-share stocks: the market-data layer          *)
(* (totalreturn/ak_client.py), the calculator (totalreturn/calculator.py), *)
(* the batch front end (totalreturn/cli.py) and the desktop computation    *)
(* path (gui_app.py).                                                      *)
(*                                                                         *)
(* Conventions.                                                            *)
(*  - An optional value (Python None or a value) is a sequence of length   *)
(*    at most one: None is << >>, a present value v is <<v>>.              *)
(*  - A call that may raise returns [ok |-> TRUE, val |-> v] or            *)
(*    [ok |-> FALSE, err |-> message].                                     *)
(*  - A calendar date in canonical YYYY-MM-DD text is its number in the    *)
(*    order of the dates: the string order the code uses on such texts is  *)
(*    the order of the days.                                               *)
(*  - A float is an exact rational <<numerator, denominator>>.             *)
(*  - A text is a sequence of one-character strings where the code looks   *)
(*    inside it, and an opaque string where it does not.                   *)
(***************************************************************************)
EXTENDS Integers, Sequences, FiniteSets, TLC

VARIABLES
    code,       \* _to_exchange_symbol: the argument
    symbol,     \* _to_exchange_symbol: the outcome of the call, None before it
    events,     \* sum_cash_dividends_in_interval: the events argument
    interval,   \* sum_cash_dividends_in_interval: <<start_trade_date, end_trade_date>>
    cash_sum,    \* sum_cash_dividends_in_interval: the returned pair, None before the call
    request,    \* derive_trade_window_from_prices: [start_date, end_date]
    hist,       \* the provider's answer to the stock's own range query, None before it
    ref_i,      \* index into fallback_symbols of the next reference stock to query
    ref_dates,  \* the local list `dates` of the reference-stock loop, as a set
    win_pc,     \* position in derive_trade_window_from_prices
    window,     \* the outcome of derive_trade_window_from_prices, None before it
    calc_args,  \* compute_interval_total_return: [s, e, via], None before the call
    calc_stub,  \* the provider's answers during the call, None before them
    calc_out,   \* the outcome of compute_interval_total_return, None before it
    config_data, \* load_config: what yaml.safe_load(f) or {} yields, None where no file is read
    cfg,        \* the AppConfig that load_config returns
    provider,   \* the provider's answers, by 6-digit code
    items,      \* compute_for_codes: the codes argument
    gui_pc,     \* position in compute_for_codes
    normalized, \* compute_for_codes: the resolved (code, label) pairs still to compute
    gui_rows,   \* compute_for_codes: rows
    cli_pc,     \* position in cli.run
    cli_i,      \* cli.run: index of the next configured stock
    rows,       \* cli.run: rows
    console,    \* cli.run: the lines printed after the header
    csv,        \* cli.run: the rows written to the CSV file, None before it
    cli_error,  \* cli.run: the message of the exception that ended the call, None without one
    plan_text,  \* _parse_cash_per_share_from_text: the argument
    parsed,     \* _parse_cash_per_share_from_text: the returned amount, None before the call
    res_text,   \* resolve_to_code: the text argument
    res_map,    \* resolve_to_code: the name_to_code argument
    res_out,    \* resolve_to_code: Some(returned value), None before the call
    LAST_ROWS,  \* web_app: the module-level list LAST_ROWS
    web_req,    \* web_app: the request each client has in progress
    web_resp,   \* web_app: the last response each client received, None before it
    web_page,   \* web_app: the rows of the last result page rendered to each client
    last_ok,    \* web_app: the rows of the most recent /calculate that succeeded
    web_files,  \* web_app: the web_summary CSV files written, oldest first
    web_calls,  \* web_app: the number of calls of compute_for_codes
    web_seq,    \* web_app: the number of requests received
    div_primary,   \* get_dividends: the provider's answer to stock_history_dividend_detail
    div_secondary, \* get_dividends: the provider's answer to stock_fhps_detail_ths
    div_source,    \* get_dividends: the local list events before it is grouped
    div_queried,   \* get_dividends: the sources queried, in the order of the queries
    div_events,    \* get_dividends: the returned list, None before the call
    desk_rows,     \* TotalReturnGUI: self.rows
    desk_dialog,   \* TotalReturnGUI: the title of the dialog the last click showed, None without one
    desk_files,    \* TotalReturnGUI: the gui_summary CSV files written, oldest first
    desk_last,     \* TotalReturnGUI: the last click, None before the first
    desk_ok,       \* TotalReturnGUI: the rows of the most recent Calculate that completed
    desk_clicks,   \* TotalReturnGUI: the number of clicks handled
    add_frames,    \* sum_additional_shares_in_interval: the provider's two frames
    add_window,    \* sum_additional_shares_in_interval: <<start_trade_date, end_trade_date>>
    add_out,       \* sum_additional_shares_in_interval: the returned triple, None before the call
    q_code,        \* cli.run: s.code of the stock whose row is produced
    q_pc,          \* cli.run: position in the body of the loop for that stock
    q_log,         \* the provider queries issued for the stock: <<function, symbol>>
    q_row,         \* cli.run: the code field of the stock's row, None before the row
    date_raw,      \* from_dict._normalize_date: the argument v, a text or a date object
    date_out,      \* from_dict._normalize_date: the outcome, None before the call
    map_primary,   \* build_code_maps: the provider's answer to stock_info_a_code_name
    map_spot,      \* build_code_maps: the provider's answer to stock_zh_a_spot_em
    map_pc,        \* build_code_maps: position in the function
    map_name_to_code, \* build_code_maps: the dict name_to_code, in insertion order
    map_code_to_name, \* build_code_maps: the dict code_to_name, in insertion order
    map_log,       \* build_code_maps: the sources consulted, in order
    nm_code,       \* get_stock_name: the argument code
    nm_info,       \* get_stock_name: the provider's answer to stock_individual_info_em
    nm_listing,    \* get_stock_name: the provider's answer to stock_info_a_code_name
    nm_pc,         \* get_stock_name: position in the function
    nm_log,        \* get_stock_name: the provider queries issued: <<function, symbol>>
    nm_out         \* get_stock_name: the outcome of the call, None before it ends

symVars == <<code, symbol>>
divVars == <<events, interval, cash_sum>>
winVars == <<request, hist, ref_i, ref_dates, win_pc, window>>
calcVars == <<calc_args, calc_stub, calc_out>>
envVars == <<config_data, cfg, provider, items>>
guiVars == <<gui_pc, normalized, gui_rows>>
cliVars == <<cli_pc, cli_i, rows, console, csv, cli_error>>
runVars == <<envVars, guiVars, cliVars>>
parseVars == <<plan_text, parsed>>
resolveVars == <<res_text, res_map, res_out>>
getdivVars == <<div_primary, div_secondary, div_source, div_queried, div_events>>
addVars == <<add_frames, add_window, add_out>>
queryVars == <<q_code, q_pc, q_log, q_row>>
datesVars == <<date_raw, date_out>>
mapsVars == <<map_primary, map_spot, map_pc, map_name_to_code, map_code_to_name, map_log>>
nameVars == <<nm_code, nm_info, nm_listing, nm_pc, nm_log, nm_out>>
deskVars == <<desk_rows, desk_dialog, desk_files, desk_last, desk_ok, desk_clicks>>
webVars == <<LAST_ROWS, web_req, web_resp, web_page, last_ok, web_files, web_calls, web_seq>>
coreVars == <<symVars, divVars, winVars, calcVars, runVars>>
extVars == <<parseVars, resolveVars, webVars, getdivVars, deskVars, datesVars, addVars, queryVars, mapsVars, nameVars>>
vars == <<symVars, divVars, winVars, calcVars, runVars, extVars>>
parseRest == <<coreVars, resolveVars, webVars, getdivVars, deskVars, datesVars, addVars, queryVars, mapsVars, nameVars>>
resolveRest == <<coreVars, parseVars, webVars, getdivVars, deskVars, datesVars, addVars, queryVars, mapsVars, nameVars>>
webRest == <<coreVars, parseVars, resolveVars, getdivVars, deskVars, datesVars, addVars, queryVars, mapsVars, nameVars>>
getdivRest == <<coreVars, parseVars, resolveVars, webVars, deskVars, datesVars, addVars, queryVars, mapsVars, nameVars>>
deskRest == <<coreVars, parseVars, resolveVars, webVars, getdivVars, datesVars, addVars, queryVars, mapsVars, nameVars>>
datesRest == <<coreVars, parseVars, resolveVars, webVars, getdivVars, deskVars, addVars, queryVars, mapsVars, nameVars>>
addRest == <<coreVars, parseVars, resolveVars, webVars, getdivVars, deskVars, datesVars, queryVars, mapsVars, nameVars>>
queryRest == <<coreVars, parseVars, resolveVars, webVars, getdivVars, deskVars, datesVars, addVars, mapsVars, nameVars>>
mapsRest == <<coreVars, parseVars, resolveVars, webVars, getdivVars, deskVars, datesVars, addVars, queryVars, nameVars>>
nameRest == <<coreVars, parseVars, resolveVars, webVars, getdivVars, deskVars, datesVars, addVars, queryVars, mapsVars>>

None == << >>
Some(v) == <<v>>
Ok(v) == [ok |-> TRUE, val |-> v]
Raise(e) == [ok |-> FALSE, err |-> e]

\* the variables of an operation that a specification does not exercise
SymbolIdle == code = << >> /\ symbol = None
DividendsIdle == events = << >> /\ interval = <<1, 1>> /\ cash_sum = None
WindowIdle ==
    /\ request = [start_date |-> 1, end_date |-> None]
    /\ hist = None
    /\ ref_i = 1
    /\ ref_dates = {}
    /\ win_pc = "idle"
    /\ window = None
CalcIdle == calc_args = None /\ calc_stub = None /\ calc_out = None
RunIdle ==
    /\ config_data = None
    /\ cli_error = None
    /\ cfg = [stocks |-> << >>, start_date |-> 1, end_date |-> None]
    /\ provider = << >>
    /\ items = << >>
    /\ gui_pc = "idle"
    /\ normalized = << >>
    /\ gui_rows = << >>
    /\ cli_pc = "idle"
    /\ cli_i = 1
    /\ rows = << >>
    /\ console = << >>
    /\ csv = None
CoreIdle == SymbolIdle /\ DividendsIdle /\ WindowIdle /\ CalcIdle /\ RunIdle
ParseIdle == plan_text = << >> /\ parsed = None
WebIdle ==
    /\ LAST_ROWS = << >>
    /\ web_req = << >>
    /\ web_resp = << >>
    /\ web_page = << >>
    /\ last_ok = None
    /\ web_files = << >>
    /\ web_calls = 0
    /\ web_seq = 0
GetdivIdle ==
    /\ div_primary = None
    /\ div_secondary = None
    /\ div_source = << >>
    /\ div_queried = << >>
    /\ div_events = None
AddIdle == add_frames = [bonus |-> << >>, allot |-> << >>] /\ add_window = <<1, 1>> /\ add_out = None
QueryIdle == q_code = << >> /\ q_pc = "idle" /\ q_log = << >> /\ q_row = None
DatesIdle == date_raw = <<"null", << >>>> /\ date_out = None
NoAnswer == [kind |-> "raise", cols |-> FALSE, rows |-> << >>]
MapsIdle ==
    /\ map_primary = NoAnswer
    /\ map_spot = NoAnswer
    /\ map_pc = "idle"
    /\ map_name_to_code = << >>
    /\ map_code_to_name = << >>
    /\ map_log = << >>
NameIdle ==
    /\ nm_code = << >>
    /\ nm_info = NoAnswer
    /\ nm_listing = NoAnswer
    /\ nm_pc = "idle"
    /\ nm_log = << >>
    /\ nm_out = None
DeskIdle ==
    /\ desk_rows = << >>
    /\ desk_dialog = None
    /\ desk_files = << >>
    /\ desk_last = None
    /\ desk_ok = None
    /\ desk_clicks = 0
ResolveIdle == res_text = << >> /\ res_map = << >> /\ res_out = None
ExtIdle == ParseIdle /\ ResolveIdle /\ WebIdle /\ GetdivIdle /\ DeskIdle /\ DatesIdle /\ AddIdle /\ QueryIdle /\ MapsIdle /\ NameIdle
ParseRestIdle == CoreIdle /\ ResolveIdle /\ WebIdle /\ GetdivIdle /\ DeskIdle /\ DatesIdle /\ AddIdle /\ QueryIdle /\ MapsIdle /\ NameIdle
ResolveRestIdle == CoreIdle /\ ParseIdle /\ WebIdle /\ GetdivIdle /\ DeskIdle /\ DatesIdle /\ AddIdle /\ QueryIdle /\ MapsIdle /\ NameIdle
WebRestIdle == CoreIdle /\ ParseIdle /\ ResolveIdle /\ GetdivIdle /\ DeskIdle /\ DatesIdle /\ AddIdle /\ QueryIdle /\ MapsIdle /\ NameIdle
GetdivRestIdle == CoreIdle /\ ParseIdle /\ ResolveIdle /\ WebIdle /\ DeskIdle /\ DatesIdle /\ AddIdle /\ QueryIdle /\ MapsIdle /\ NameIdle
DeskRestIdle == CoreIdle /\ ParseIdle /\ ResolveIdle /\ WebIdle /\ GetdivIdle /\ DatesIdle /\ AddIdle /\ QueryIdle /\ MapsIdle /\ NameIdle
DatesRestIdle == CoreIdle /\ ParseIdle /\ ResolveIdle /\ WebIdle /\ GetdivIdle /\ DeskIdle /\ AddIdle /\ QueryIdle /\ MapsIdle /\ NameIdle
AddRestIdle == CoreIdle /\ ParseIdle /\ ResolveIdle /\ WebIdle /\ GetdivIdle /\ DeskIdle /\ DatesIdle /\ QueryIdle /\ MapsIdle /\ NameIdle
QueryRestIdle == CoreIdle /\ ParseIdle /\ ResolveIdle /\ WebIdle /\ GetdivIdle /\ DeskIdle /\ DatesIdle /\ AddIdle /\ MapsIdle /\ NameIdle
MapsRestIdle == CoreIdle /\ ParseIdle /\ ResolveIdle /\ WebIdle /\ GetdivIdle /\ DeskIdle /\ DatesIdle /\ AddIdle /\ QueryIdle /\ NameIdle
NameRestIdle == CoreIdle /\ ParseIdle /\ ResolveIdle /\ WebIdle /\ GetdivIdle /\ DeskIdle /\ DatesIdle /\ AddIdle /\ QueryIdle /\ MapsIdle

(***************************************************************************)
(* Bounds                                                                  *)
(***************************************************************************)
\* longest code text handed to _to_exchange_symbol
MaxCodeLen == 7
\* calendar days 1..MaxDate
MaxDate == 4
\* longest list of dividend events handed to sum_cash_dividends_in_interval
MaxEvents == 2

(***************************************************************************)
(* ak_client._to_exchange_symbol                                           *)
(***************************************************************************)
Digits == {"0", "1", "2", "3", "4", "5", "6", "7", "8", "9"}
Whitespace == {" "}

\* str.strip(): leading and trailing whitespace removed
RECURSIVE lstrip(_)
lstrip(s) == IF s # << >> /\ Head(s) \in Whitespace THEN lstrip(Tail(s)) ELSE s

RECURSIVE rstrip(_)
rstrip(s) ==
    IF s # << >> /\ s[Len(s)] \in Whitespace
    THEN rstrip(SubSeq(s, 1, Len(s) - 1))
    ELSE s

strip(s) == rstrip(lstrip(s))

\* str.isdigit(): at least one character and every character a digit
isdigit(s) == s # << >> /\ \A i \in 1..Len(s) : s[i] \in Digits

\* s[-n:]: the last n characters, the whole text when it is shorter
LastChars(s, n) == IF Len(s) <= n THEN s ELSE SubSeq(s, Len(s) - n + 1, Len(s))

\* str.zfill(width): zeros on the left up to the width, after a leading sign
RECURSIVE zfill(_, _)
zfill(s, width) ==
    IF Len(s) >= width THEN s
    ELSE IF s # << >> /\ Head(s) \in {"+", "-"}
         THEN <<Head(s)>> \o zfill(Tail(s), width - 1)
         ELSE zfill(<<"0">> \o s, width)

SymbolWidth == 6

to_exchange_symbol(c) ==
    LET stripped == strip(c) IN
    IF stripped = << >> THEN Raise("Invalid stock code")
    ELSE IF ~isdigit(stripped)
         THEN Ok(zfill(LastChars(stripped, SymbolWidth), SymbolWidth))
         ELSE Ok(zfill(stripped, SymbolWidth))

(***************************************************************************)
(* Dates and floats                                                        *)
(***************************************************************************)
Dates == 1..MaxDate

\* floats as exact rationals <<numerator, denominator>> in lowest terms,
\* denominator > 0
Zero == <<0, 1>>
Abs(n) == IF n < 0 THEN 0 - n ELSE n

RECURSIVE GCD(_, _)
GCD(a, b) == IF b = 0 THEN a ELSE GCD(b, a % b)

Norm(n, d) ==
    LET g == GCD(Abs(n), Abs(d))
        sign == IF d < 0 THEN 0 - 1 ELSE 1
    IN <<sign * (n \div g), sign * (d \div g)>>

RAdd(a, b) == Norm(a[1] * b[2] + b[1] * a[2], a[2] * b[2])
RSub(a, b) == Norm(a[1] * b[2] - b[1] * a[2], a[2] * b[2])
RMul(a, b) == Norm(a[1] * b[1], a[2] * b[2])
REq(a, b) == a[1] * b[2] = b[1] * a[2]
RPos(a) == a[1] > 0
\* a / b for b # 0
RQuot(a, b) == Norm(a[1] * b[2], a[2] * b[1])

(***************************************************************************)
(* ak_client.sum_cash_dividends_in_interval                                *)
(***************************************************************************)
DividendEvent(d, c) == [ex_date |-> d, cash_per_share |-> c]

\* the interval test with the start boundary included
InIntervalClosedStart(d, s, e) == s <= d /\ d <= e

\* start_trade_date < e.ex_date <= end_trade_date
InInterval(d, s, e) == s < d /\ d <= e

\* the loop over the events, from the totals so far
RECURSIVE SumLoop(_, _, _, _, _)
SumLoop(evs, s, e, total, count) ==
    IF evs = << >> THEN <<total, count>>
    ELSE IF InInterval(Head(evs).ex_date, s, e)
         THEN SumLoop(Tail(evs), s, e,
                      RAdd(total, Head(evs).cash_per_share), count + 1)
         ELSE SumLoop(Tail(evs), s, e, total, count)

sum_cash_dividends_in_interval(evs, s, e) == SumLoop(evs, s, e, Zero, 0)

(***************************************************************************)
(* Specification of the interval dividend sum: every list of at most       *)
(* MaxEvents events and every pair of dates.                               *)
(***************************************************************************)
CashAmounts == {<<1, 2>>, <<3, 10>>}

EventLists ==
    UNION { [1..n -> {DividendEvent(d, c) : d \in Dates, c \in CashAmounts}] :
            n \in 0..MaxEvents }

InitDividends ==
    /\ events \in EventLists
    /\ interval \in Dates \X Dates
    /\ cash_sum = None
    /\ SymbolIdle
    /\ WindowIdle
    /\ CalcIdle
    /\ RunIdle
    /\ ExtIdle

SumDividends ==
    /\ cash_sum = None
    /\ cash_sum' = Some(sum_cash_dividends_in_interval(events, interval[1], interval[2]))
    /\ UNCHANGED <<events, interval, symVars, winVars, calcVars, runVars, extVars>>

NextDividends == SumDividends

SpecDividends == InitDividends /\ [][NextDividends]_vars

\* the events counted by the claim: start < ex_date <= end
CountedEvents ==
    {i \in 1..Len(events) :
        interval[1] < events[i].ex_date /\ events[i].ex_date <= interval[2]}

RECURSIVE CashOf(_)
CashOf(idx) ==
    IF idx = {} THEN Zero
    ELSE LET i == CHOOSE j \in idx : TRUE
         IN RAdd(events[i].cash_per_share, CashOf(idx \ {i}))

\* C5: the call returns the sum of cash_per_share and the number of exactly
\* the events with start_trade_date < ex_date <= end_trade_date; an event on
\* the start trade date is never counted, one on the end trade date always.
DividendSumIsOpenClosed ==
    cash_sum # None =>
        /\ cash_sum[1][2] = Cardinality(CountedEvents)
        /\ REq(cash_sum[1][1], CashOf(CountedEvents))

\* the documented example: events on the start and on the end trade date,
\* only the later one counted
DividendSumWitness ==
    /\ cash_sum # None
    /\ Len(events) = 2
    /\ interval[1] < interval[2]
    /\ events[1].ex_date = interval[1]
    /\ events[2].ex_date = interval[2]
    /\ cash_sum[1][2] = 1
    /\ REq(cash_sum[1][1], events[2].cash_per_share)

(***************************************************************************)
(* The provider's daily price history (ak.stock_zh_a_hist)                 *)
(***************************************************************************)
\* datetime.today(): the day before the last calendar day, so that a
\* configured end_date may lie after today
Today == MaxDate - 1

\* A price history holds sessions that have taken place: no day after today.
TradeDates == 1..Today

\* An answer to a range query: the call raises, or it returns a frame that
\* is empty (or None), or one with rows whose dates parse to `dates` (no
\* parsable date at all: rows but dates = {}).  The requested range is not
\* assumed to have been honoured: the code filters the dates itself.
HistRaises == [kind |-> "raise", empty |-> TRUE, dates |-> {}]
HistFrame(ds, isEmpty) == [kind |-> "frame", empty |-> isEmpty, dates |-> ds]
HistResponses ==
    {HistRaises, HistFrame({}, TRUE)} \cup {HistFrame(ds, FALSE) : ds \in SUBSET TradeDates}

Min(S) == CHOOSE x \in S : \A y \in S : x <= y
Max(S) == CHOOSE x \in S : \A y \in S : y <= x

(***************************************************************************)
(* ak_client.pick_start_trade_date, pick_end_trade_date,                   *)
(* get_default_end_trade_date: `trade_dates` is sorted and free of         *)
(* duplicates (sorted({...})), so it is modelled by the set of its dates.  *)
(***************************************************************************)
pick_start_trade_date(start_date, trade_dates) ==
    LET later == {d \in trade_dates : d >= start_date} IN
    IF later = {} THEN Raise("No trading date found on/after start_date")
    ELSE Ok(Min(later))

pick_end_trade_date(end_date, trade_dates) ==
    LET earlier == {d \in trade_dates : d <= end_date} IN
    IF earlier = {} THEN Raise("No trading date found on/before end_date")
    ELSE Ok(Max(earlier))

get_default_end_trade_date(trade_dates) ==
    LET before == {d \in trade_dates : d < Today} IN
    IF before = {} THEN Max(trade_dates) ELSE Max(before)

(***************************************************************************)
(* ak_client.derive_trade_window_from_prices                               *)
(***************************************************************************)
fallback_symbols == <<"600000", "000001", "601318", "000002">>

\* the start candidates when only the requested day itself is accepted
StartCandidatesExact(dates, start_date) == {d \in dates : d = start_date}

\* start_candidates = [d for d in dates if d >= start_date]
StartCandidates(dates, start_date) == {d \in dates : d >= start_date}

\* the end trade date without the step back from today
OwnEndNoStepBack(end_candidates, end_date) == Max(end_candidates)

\* end_candidates[-1], or end_candidates[-2] when end_date is None and the
\* latest candidate is today
OwnEnd(end_candidates, end_date) ==
    LET last == Max(end_candidates) IN
    IF end_date = None /\ last = Today /\ Cardinality(end_candidates) >= 2
    THEN Max(end_candidates \ {last})
    ELSE last

\* the final order check left out
CheckOrderMissing(s, e) == Ok(<<s, e>>)

\* if start_trade_date > end_trade_date: raise
CheckOrder(s, e) ==
    IF s > e THEN Raise("Derived start_trade_date is after end_trade_date")
    ELSE Ok(<<s, e>>)

\* the reference-stock path, from the dates the loop ended with
DeriveFromReference(dates, start_date, end_date) ==
    IF dates = {} THEN Raise("Failed to fetch price history")
    ELSE LET s == pick_start_trade_date(start_date, dates)
             e == IF end_date # None
                  THEN pick_end_trade_date(end_date[1], dates)
                  ELSE Ok(get_default_end_trade_date(dates))
         IN IF ~s.ok THEN s
            ELSE IF ~e.ok THEN e
            ELSE CheckOrder(s.val, e.val)

\* the stock's own path, from the dates of its frame
DeriveFromOwn(dates, start_date, end_date) ==
    IF dates = {} THEN Raise("No valid trading dates found in price history")
    ELSE LET start_candidates == StartCandidates(dates, start_date)
             boundary == IF end_date # None THEN end_date[1] ELSE Today
             end_candidates == {d \in dates : d <= boundary}
         IN IF start_candidates = {}
            THEN Raise("No trading date on/after start_date")
            ELSE IF end_candidates = {}
            THEN Raise("No trading date on/before end boundary")
            ELSE CheckOrder(Min(start_candidates), OwnEnd(end_candidates, end_date))

\* own: the answer to the stock's own range query; refDates: the dates the
\* reference-stock loop ended with (used only when own is an empty frame).
\* The callers pass codes that are non-empty, so _to_exchange_symbol does
\* not raise here.
derive_trade_window_from_prices(own, refDates, start_date, end_date) ==
    IF own.kind = "raise" THEN Raise("provider error")
    ELSE IF own.empty THEN DeriveFromReference(refDates, start_date, end_date)
    ELSE DeriveFromOwn(own.dates, start_date, end_date)

(***************************************************************************)
(* Specification of the window derivation: every start_date, every         *)
(* end_date (or none), every answer of the provider to the own query and   *)
(* to each reference-stock query.                                          *)
(***************************************************************************)
InitWindow ==
    /\ request \in [start_date : Dates, end_date : {None} \cup {Some(d) : d \in Dates}]
    /\ hist = None
    /\ ref_i = 1
    /\ ref_dates = {}
    /\ win_pc = "query"
    /\ window = None
    /\ SymbolIdle
    /\ DividendsIdle
    /\ CalcIdle
    /\ RunIdle
    /\ ExtIdle

\* df = get_hist_unadjusted_range(code, start_date, end_date)
QueryOwnHistory ==
    /\ win_pc = "query"
    /\ \E r \in HistResponses :
        /\ hist' = Some(r)
        /\ win_pc' = IF r.kind = "frame" /\ r.empty THEN "reference" ELSE "return"
    /\ UNCHANGED <<request, ref_i, ref_dates, window, symVars, divVars, calcVars, runVars, extVars>>

\* one round of `for sym in fallback_symbols`
QueryReference ==
    /\ win_pc = "reference"
    /\ \E r \in HistResponses :
        LET found == IF r.kind = "frame" /\ ~r.empty THEN r.dates ELSE ref_dates
            more == ref_i < Len(fallback_symbols) /\ (r.kind = "raise" \/ found = {})
        IN /\ ref_dates' = found
           /\ ref_i' = IF more THEN ref_i + 1 ELSE ref_i
           /\ win_pc' = IF more THEN "reference" ELSE "return"
    /\ UNCHANGED <<request, hist, window, symVars, divVars, calcVars, runVars, extVars>>

\* the rest of the function, to its return or raise
ReturnWindow ==
    /\ win_pc = "return"
    /\ window' = Some(derive_trade_window_from_prices(
                        hist[1], ref_dates, request.start_date, request.end_date))
    /\ win_pc' = "done"
    /\ UNCHANGED <<request, hist, ref_i, ref_dates, symVars, divVars, calcVars, runVars, extVars>>

NextWindow == QueryOwnHistory \/ QueryReference \/ ReturnWindow

SpecWindow == InitWindow /\ [][NextWindow]_vars

\* the price history the window was derived from
OwnPath == hist # None /\ hist[1].kind = "frame" /\ ~hist[1].empty
UsedDates == IF OwnPath THEN hist[1].dates ELSE ref_dates
Returned == window # None /\ window[1].ok
Boundary == IF request.end_date # None THEN request.end_date[1] ELSE Today

\* C6: a returned window (s, e) satisfies start_date <= s <= e <= boundary
\* (end_date if given, today otherwise) and s and e are dates of the price
\* history that was used; no pair with s > e is returned.
WindowWithinRequest ==
    Returned =>
        LET s == window[1].val[1]
            e == window[1].val[2]
        IN /\ request.start_date <= s
           /\ s <= e
           /\ e <= Boundary
           /\ s \in UsedDates
           /\ e \in UsedDates

\* a window is returned on the stock's own path and on the reference path,
\* from a history in which the order check matters
WindowWitness ==
    /\ Returned
    /\ ~OwnPath
    /\ ref_i > 1
    /\ window[1].val[1] < window[1].val[2]
    /\ \E d \in UsedDates : d < request.start_date

\* C7: when the stock's own history starts after the requested start_date
\* and on or before the end boundary, the derivation succeeds and the
\* start trade date is the first trading day of that history.
NewListingStartsAtFirstDay ==
    (/\ window # None
     /\ OwnPath
     /\ hist[1].dates # {}
     /\ Min(hist[1].dates) > request.start_date
     /\ Min(hist[1].dates) <= Boundary)
    => /\ window[1].ok
       /\ window[1].val[1] = Min(hist[1].dates)

NewListingWitness ==
    /\ Returned
    /\ OwnPath
    /\ Min(hist[1].dates) > request.start_date
    /\ window[1].val[1] = Min(hist[1].dates)
    /\ window[1].val[1] > request.start_date

\* C8: with no end_date and at least two trading days in the fetched
\* history, a returned end trade date is strictly before today, on the own
\* path and on the reference path.
DefaultEndBeforeToday ==
    (/\ Returned
     /\ request.end_date = None
     /\ Cardinality(UsedDates) >= 2)
    => window[1].val[2] < Today

\* today is a trading day of the fetched history and the day before is
\* returned, on the stock's own path
DefaultEndWitness ==
    /\ Returned
    /\ OwnPath
    /\ request.end_date = None
    /\ Today \in UsedDates
    /\ Cardinality(UsedDates) >= 2
    /\ window[1].val[2] < Today

(***************************************************************************)
(* ak_client.get_unadjusted_close_on                                       *)
(***************************************************************************)
\* An answer to a single-day query: the call raises, the frame is empty,
\* the frame has no row for the requested day, the row's close is not a
\* number, or the row holds a close.
CloseAnswer(k, c) == [kind |-> k, close |-> c]
Prices == {<<0, 1>>, <<10, 1>>, <<12, 1>>}
CloseResponses ==
    {CloseAnswer(k, Zero) : k \in {"raise", "empty", "norow", "nan"}}
        \cup {CloseAnswer("close", c) : c \in Prices}

get_unadjusted_close_on(r) ==
    CASE r.kind = "raise" -> Raise("provider error")
      [] r.kind = "empty" -> Raise("No price data")
      [] r.kind = "norow" -> Raise("Price row not found")
      [] r.kind = "nan" -> Raise("Invalid close price")
      [] OTHER -> Ok(r.close)

(***************************************************************************)
(* ak_client.sum_additional_shares_in_interval                             *)
(* A row of the "分红" frame: its ex-date and its 送股 and 转增 cells; a row *)
(* of the "配股" frame: its date and its 配股方案 cell.  A cell that is       *)
(* missing, NaN or unparsable is None; amounts are per 10 shares.  A query *)
(* that raises leaves an empty frame.                                      *)
(***************************************************************************)
BonusRow(d, send, transfer) == [ex |-> d, send |-> send, transfer |-> transfer]
AllotRow(d, allot) == [ex |-> d, allot |-> allot]
Ten == <<10, 1>>

\* f"{x:.4f}": the number of ten-thousandths nearest to x
Fmt4(x) == (2 * 10000 * x[1] + x[2]) \div (2 * x[2])

\* float(v) when v is a number above zero, not divided by ten
PerShareUndivided(cell) ==
    IF cell # None /\ RPos(cell[1]) THEN cell[1] ELSE Zero

\* float(v) / 10.0 when v is a number above zero, else nothing added
PerShare(cell) ==
    IF cell # None /\ RPos(cell[1]) THEN RQuot(cell[1], Ten) ELSE Zero

\* the text of a cell in a note: empty for a missing cell
CellText(cell) == IF cell = None THEN None ELSE Some(Fmt4(RQuot(cell[1], Ten)))

RECURSIVE BonusLoop(_, _, _, _)
BonusLoop(frame, s, e, acc) ==
    IF frame = << >> THEN acc
    ELSE LET row == Head(frame)
             added == RAdd(PerShare(row.send), PerShare(row.transfer))
         IN IF row.ex = None \/ ~InInterval(row.ex[1], s, e) \/ ~RPos(added)
            THEN BonusLoop(Tail(frame), s, e, acc)
            ELSE BonusLoop(Tail(frame), s, e,
                    [total |-> RAdd(acc.total, added),
                     count |-> acc.count + 1,
                     notes |-> Append(acc.notes,
                        <<"bonus", row.ex[1], CellText(row.send), CellText(row.transfer)>>)])

RECURSIVE AllotLoop(_, _, _, _)
AllotLoop(frame, s, e, acc) ==
    IF frame = << >> THEN acc
    ELSE LET row == Head(frame)
             added == PerShare(row.allot)
         IN IF row.ex = None \/ ~InInterval(row.ex[1], s, e) \/ ~RPos(added)
            THEN AllotLoop(Tail(frame), s, e, acc)
            ELSE AllotLoop(Tail(frame), s, e,
                    [total |-> RAdd(acc.total, added),
                     count |-> acc.count + 1,
                     notes |-> Append(acc.notes,
                        <<"allot", row.ex[1], Some(Fmt4(added)), None>>)])

\* returns (total_additional, count, desc); desc, the notes joined with
\* "; ", is the list of the notes
sum_additional_shares_in_interval(bonus, allot, s, e) ==
    AllotLoop(allot, s, e,
        BonusLoop(bonus, s, e, [total |-> Zero, count |-> 0, notes |-> << >>]))

(***************************************************************************)
(* calculator.compute_interval_total_return                                *)
(***************************************************************************)
\* The provider's answers for one stock: the close on the start and on the
\* end trade date, the events get_dividends returns, the two frames of
\* sum_additional_shares_in_interval.
Stub(cs, ce, divs, bonus, allot) ==
    [start_close |-> cs, end_close |-> ce, dividends |-> divs,
     bonus |-> bonus, allot |-> allot]

\* the return with the value of the additional shares left out
TotalReturnCashOnly(start_close, end_close, div_sum, add_value) ==
    IF start_close[1] = 0 THEN Raise("float division by zero")
    ELSE Ok(RQuot(RSub(RAdd(end_close, div_sum), start_close), start_close))

\* (end_close + div_sum + add_value_per_share - start_close) / start_close
TotalReturn(start_close, end_close, div_sum, add_value) ==
    IF start_close[1] = 0 THEN Raise("float division by zero")
    ELSE Ok(RQuot(RSub(RAdd(RAdd(end_close, div_sum), add_value), start_close),
                  start_close))

compute_interval_total_return(c, s, e, stub) ==
    LET start_close == get_unadjusted_close_on(stub.start_close)
        end_close == get_unadjusted_close_on(stub.end_close)
        div == sum_cash_dividends_in_interval(stub.dividends, s, e)
        add == sum_additional_shares_in_interval(stub.bonus, stub.allot, s, e)
    IN IF ~start_close.ok THEN start_close
       ELSE IF ~end_close.ok THEN end_close
       ELSE LET add_value_per_share == RMul(end_close.val, add.total)
                total_return == TotalReturn(start_close.val, end_close.val,
                                            div[1], add_value_per_share)
            IN IF ~total_return.ok THEN total_return
               ELSE Ok([code |-> c,
                        start_trade_date |-> s,
                        end_trade_date |-> e,
                        start_close |-> start_close.val,
                        end_close |-> end_close.val,
                        dividend_sum_per_share |-> div[1],
                        dividend_event_count |-> div[2],
                        additional_shares_per_share |-> add.total,
                        additional_event_count |-> add.count,
                        additional_value_per_share |-> add_value_per_share,
                        bonus_allot_desc |-> add.notes,
                        total_return |-> total_return.val])

(***************************************************************************)
(* Specification of the calculator: it is called with the window that      *)
(* derive_trade_window_from_prices returned, as cli.run and                *)
(* compute_for_codes call it, or directly with any pair of dates, and the  *)
(* provider answers from every combination of the answers below.           *)
(***************************************************************************)
StubDividends ==
    {<< >>}
        \cup {<<DividendEvent(d, <<1, 2>>)>> : d \in Dates}
        \cup {<<DividendEvent(d, <<1, 5>>), DividendEvent(MaxDate, <<3, 10>>)>> : d \in Dates}

StubBonus ==
    {<< >>, <<BonusRow(None, Some(<<1, 1>>), None)>>,
     <<BonusRow(Some(2), None, Some(<<3, 1>>)), BonusRow(Some(2), Some(Zero), Some(<<2, 1>>))>>}
        \cup {<<BonusRow(Some(d), Some(<<1, 1>>), None)>> : d \in Dates}

StubAllot ==
    {<< >>, <<AllotRow(Some(2), Some(<<3, 1>>))>>, <<AllotRow(Some(MaxDate), None)>>}

Stubs ==
    {Stub(cs, ce, divs, bonus, allot) :
        cs \in CloseResponses, ce \in CloseResponses, divs \in StubDividends,
        bonus \in StubBonus, allot \in StubAllot}

StockCodes == {"600519", "000001"}

InitCalc ==
    /\ calc_args = None
    /\ calc_stub = None
    /\ calc_out = None
    /\ SymbolIdle
    /\ DividendsIdle
    /\ WindowIdle
    /\ RunIdle
    /\ ExtIdle

\* the caller derives the window first and calls only when it was returned
CallWithWindow ==
    /\ calc_args = None
    /\ \E own \in HistResponses, refDates \in SUBSET TradeDates, start_date \in Dates,
          end_date \in {None} \cup {Some(d) : d \in Dates} :
        LET w == derive_trade_window_from_prices(own, refDates, start_date, end_date)
        IN /\ w.ok
           /\ calc_args' = Some([s |-> w.val[1], e |-> w.val[2], via |-> "window"])
    /\ UNCHANGED <<calc_stub, calc_out, symVars, divVars, winVars, runVars, extVars>>

\* a caller passes dates of its own
CallDirect ==
    /\ calc_args = None
    /\ \E s \in Dates, e \in Dates :
        calc_args' = Some([s |-> s, e |-> e, via |-> "direct"])
    /\ UNCHANGED <<calc_stub, calc_out, symVars, divVars, winVars, runVars, extVars>>

\* the body of compute_interval_total_return against the provider's answers
Compute ==
    /\ calc_args # None
    /\ calc_out = None
    /\ \E stub \in Stubs, c \in StockCodes :
        /\ calc_stub' = Some(stub)
        /\ calc_out' = Some(compute_interval_total_return(
                                c, calc_args[1].s, calc_args[1].e, stub))
    /\ UNCHANGED <<calc_args, symVars, divVars, winVars, runVars, extVars>>

NextCalc == CallWithWindow \/ CallDirect \/ Compute

SpecCalc == InitCalc /\ [][NextCalc]_vars

Computed == calc_out # None /\ calc_out[1].ok

\* C4: every IntervalResult has additional_value_per_share = end_close *
\* additional_shares_per_share and total_return * start_close = end_close +
\* dividend_sum_per_share + additional_value_per_share - start_close; a
\* start close of zero gives a division error and no result.
ResultSatisfiesFormula ==
    /\ Computed =>
        LET r == calc_out[1].val IN
        /\ REq(r.additional_value_per_share,
               RMul(r.end_close, r.additional_shares_per_share))
        /\ REq(RMul(r.total_return, r.start_close),
               RSub(RAdd(RAdd(r.end_close, r.dividend_sum_per_share),
                         r.additional_value_per_share),
                    r.start_close))
    /\ (/\ calc_out # None
        /\ calc_stub[1].start_close = CloseAnswer("close", Zero)
        /\ calc_stub[1].end_close.kind = "close")
       => (~calc_out[1].ok /\ calc_out[1].err = "float division by zero")

\* the documented example: 10.0, 12.0, dividends 0.5, additional shares 0.1
\* give additional value 1.2 and total return 0.37
ResultExampleWitness ==
    /\ Computed
    /\ calc_out[1].val.start_close = <<10, 1>>
    /\ calc_out[1].val.end_close = <<12, 1>>
    /\ REq(calc_out[1].val.dividend_sum_per_share, <<1, 2>>)
    /\ REq(calc_out[1].val.additional_shares_per_share, <<1, 10>>)
    /\ REq(calc_out[1].val.additional_value_per_share, <<12, 10>>)
    /\ REq(calc_out[1].val.total_return, <<37, 100>>)

\* C9 as stated: every IntervalResult has start_trade_date <= end_trade_date,
\* a call with s > e being rejected before a result is constructed.
ResultDatesOrdered ==
    Computed => calc_out[1].val.start_trade_date <= calc_out[1].val.end_trade_date

\* C9 as amended: the result carries the dates of the call unchecked, and
\* they are ordered whenever the call was made with a window returned by
\* derive_trade_window_from_prices.
ResultDatesOrderedAfterDerive ==
    Computed =>
        /\ calc_out[1].val.start_trade_date = calc_args[1].s
        /\ calc_out[1].val.end_trade_date = calc_args[1].e
        /\ calc_args[1].via = "window" =>
               calc_out[1].val.start_trade_date <= calc_out[1].val.end_trade_date

ResultAfterDeriveWitness ==
    /\ Computed
    /\ calc_args[1].via = "window"
    /\ calc_out[1].val.start_trade_date < calc_out[1].val.end_trade_date
    /\ calc_out[1].val.dividend_event_count > 0

(***************************************************************************)
(* gui_app.resolve_to_code.  name_to_code is a dict: the sequence of its   *)
(* (name, code) pairs in insertion order.                                  *)
(***************************************************************************)
LowerCase == [c \in {"A", "B", "M", "T"} |->
                CASE c = "A" -> "a" [] c = "B" -> "b" [] c = "M" -> "m" [] OTHER -> "t"]
lower(s) == [i \in 1..Len(s) |-> IF s[i] \in DOMAIN LowerCase THEN LowerCase[s[i]] ELSE s[i]]

\* a in b
IsSubstring(a, b) ==
    \E i \in 0..(Len(b) - Len(a)) : SubSeq(b, i + 1, i + Len(a)) = a

\* the value of the last pair among the pairs at hits
LastValue(m, hits) ==
    IF hits = {} THEN None ELSE Some(m[Max(hits)][2])

\* the value of the first pair, in insertion order, among the pairs at hits
FirstValue(m, hits) ==
    IF hits = {} THEN None ELSE Some(m[Min(hits)][2])

resolve_to_code(text, name_to_code) ==
    LET s == strip(text)
        keys == [i \in 1..Len(name_to_code) |-> name_to_code[i][1]]
        exact == FirstValue(name_to_code, {i \in DOMAIN keys : keys[i] = s})
        folded == FirstValue(name_to_code, {i \in DOMAIN keys : lower(keys[i]) = lower(s)})
        candidates == FirstValue(name_to_code,
                                 {i \in DOMAIN keys :
                                    IsSubstring(s, keys[i]) \/ IsSubstring(keys[i], s)})
    IN IF s = << >> THEN None
       ELSE IF isdigit(s) /\ Len(s) <= SymbolWidth THEN Some(zfill(s, SymbolWidth))
       ELSE IF exact # None /\ exact[1] # << >> THEN exact
       ELSE IF folded # None THEN folded
       ELSE candidates

(***************************************************************************)
(* cli.get_stock_name, against the provider's two name sources: the name   *)
(* the individual-info query yields and the name the market-wide listing   *)
(* holds for the code, None where the query fails or misses.               *)
(***************************************************************************)
\* the code left out as the last resort
get_stock_name_without_code(code6, p) ==
    IF p.info # None THEN p.info[1]
    ELSE IF p.listing # None THEN p.listing[1]
    ELSE << >>

get_stock_name(code6, p) ==
    IF p.info # None THEN p.info[1]
    ELSE IF p.listing # None THEN p.listing[1]
    ELSE code6

(***************************************************************************)
(* The rows of cli.run and gui_app.compute_for_codes.  A row is a dict: a  *)
(* record whose fields are its keys; a value is None or Some(value).       *)
(***************************************************************************)
\* row.get(k) and row.get(k, default)
Get(r, k) == IF k \in DOMAIN r THEN r[k] ELSE None
GetOr(r, k, default) == IF k \in DOMAIN r THEN r[k] ELSE default

One == <<1, 1>>

\* the days of the 365.0 in the annualized return
YearDays == 365

\* the annualized return with the 1.0 left out of the base
AnnualizedWithoutOne(total_return, days) ==
    [base |-> total_return, per_days |-> days]

\* (1.0 + total_return) ** (365.0 / days) - 1.0, kept as the term: the
\* base of the power and the days that divide 365.0
Annualized(total_return, days) ==
    [base |-> RAdd(One, total_return), per_days |-> days]

\* the value of the term when the exponent 365.0 / days is 1
AnnualizedValue(term) == RSub(term.base, One)

\* base ** (365.0 / days) raises OverflowError when the power leaves the
\* float range: for days = 1 from a base of 6.9915... on, for days >= 2
\* only from 48.8 on.  The bases of this model are below 48 and none lies
\* between 6.99 and 7.
FloatPowOverflows(base, days) == days = 1 /\ base[1] >= 7 * base[2]

\* the try block around the annualized return: None when days is not
\* positive and when the power raises
annualized_return(total_return, days) ==
    IF days > 0 /\ ~FloatPowOverflows(RAdd(One, total_return), days)
    THEN Some(Annualized(total_return, days))
    ELSE None

\* The calendar day of a date: the dates 1 and 2 are consecutive days, the
\* date 3 lies YearDays after the date 1 and the later dates follow it day
\* by day.
DayOf(d) == IF d <= 2 THEN d ELSE d + YearDays - 2

\* the whole-day difference of two canonical dates
DaysBetween(s, e) == DayOf(e) - DayOf(s)

\* the front end's second query of the additional shares: the triple, or
\* (0.0, 0, "") when the query raises.  p.again tells what the provider
\* does this second time: it answers as before ("same"), it raises, or it
\* lists every bonus row twice ("other").
compute_additional_and_desc(p, s, e) ==
    IF p.again = "raises" THEN [total |-> Zero, count |-> 0, notes |-> << >>]
    ELSE IF p.again = "other"
    THEN sum_additional_shares_in_interval(p.stub.bonus \o p.stub.bonus, p.stub.allot, s, e)
    ELSE sum_additional_shares_in_interval(p.stub.bonus, p.stub.allot, s, e)

\* res.as_dict() with additional_value_per_share left as the calculator set it
SuccessRowValueKept(res, name, code6, add, total_return, annualized) ==
    [code |-> Some(code6),
     start_trade_date |-> Some(res.start_trade_date),
     end_trade_date |-> Some(res.end_trade_date),
     start_close |-> Some(res.start_close),
     end_close |-> Some(res.end_close),
     div_sum_per_share |-> Some(res.dividend_sum_per_share),
     div_event_count |-> Some(res.dividend_event_count),
     additional_shares_per_share |-> Some(add.total),
     additional_event_count |-> Some(add.count),
     additional_value_per_share |-> Some(res.additional_value_per_share),
     bonus_allot_desc |-> Some(add.notes),
     total_return |-> Some(total_return),
     name |-> Some(name),
     annualized_return |-> annualized]

\* res.as_dict() with the front end's overrides
SuccessRow(res, name, code6, add, total_return, annualized) ==
    [code |-> Some(code6),
     start_trade_date |-> Some(res.start_trade_date),
     end_trade_date |-> Some(res.end_trade_date),
     start_close |-> Some(res.start_close),
     end_close |-> Some(res.end_close),
     div_sum_per_share |-> Some(res.dividend_sum_per_share),
     div_event_count |-> Some(res.dividend_event_count),
     additional_shares_per_share |-> Some(add.total),
     additional_event_count |-> Some(add.count),
     additional_value_per_share |-> Some(RMul(res.end_close, add.total)),
     bonus_allot_desc |-> Some(add.notes),
     total_return |-> Some(total_return),
     name |-> Some(name),
     annualized_return |-> annualized]

\* the error row of cli.run with the dividend count set to zero
CliErrorRowZeroCount(name, code6, s, e, message) ==
    [name |-> Some(name), code |-> Some(code6),
     start_trade_date |-> s, end_trade_date |-> e,
     start_close |-> None, end_close |-> None,
     div_sum_per_share |-> None, div_event_count |-> Some(0),
     total_return |-> None, annualized_return |-> None,
     error |-> Some(message)]

\* the row of the except branch of cli.run; s and e are the local
\* start_trade_date and end_trade_date, None until the window is derived
CliErrorRow(name, code6, s, e, message) ==
    [name |-> Some(name), code |-> Some(code6),
     start_trade_date |-> s, end_trade_date |-> e,
     start_close |-> None, end_close |-> None,
     div_sum_per_share |-> None, div_event_count |-> None,
     total_return |-> None, annualized_return |-> None,
     error |-> Some(message)]

\* the error rows of compute_for_codes: unresolved items (code "") and the
\* except branch of the loop
GuiErrorRow(name, code6, message) ==
    [name |-> Some(name), code |-> Some(code6),
     start_trade_date |-> None, end_trade_date |-> None,
     start_close |-> None, end_close |-> None,
     div_sum_per_share |-> None, div_event_count |-> None,
     additional_shares_per_share |-> None, additional_event_count |-> None,
     additional_value_per_share |-> None, bonus_allot_desc |-> Some(<< >>),
     total_return |-> None, annualized_return |-> None,
     error |-> Some(message)]

\* the body of `for s in cfg.stocks` in cli.run, from the derivation on
CliRow(code6, name, p, c) ==
    LET w == derive_trade_window_from_prices(p.own, p.refDates, c.start_date, c.end_date)
    IN IF ~w.ok THEN CliErrorRow(name, code6, None, None, w.err)
       ELSE
       LET s == w.val[1]
           e == w.val[2]
           res == compute_interval_total_return(code6, s, e, p.stub)
       IN IF ~res.ok THEN CliErrorRow(name, code6, Some(s), Some(e), res.err)
          ELSE
          LET add == compute_additional_and_desc(p, s, e)
              again == TotalReturn(res.val.start_close, res.val.end_close,
                                   res.val.dividend_sum_per_share,
                                   RMul(res.val.end_close, add.total))
              total_return == IF again.ok THEN again.val ELSE res.val.total_return
              days == DaysBetween(s, e)
          IN SuccessRow(res.val, name, code6, add, total_return,
                        annualized_return(total_return, days))

\* the body of `for code, input_label in normalized` in compute_for_codes
GuiRow(code6, name, p, start_date, end_date) ==
    LET w == derive_trade_window_from_prices(p.own, p.refDates, start_date, end_date)
    IN IF ~w.ok THEN GuiErrorRow(name, code6, w.err)
       ELSE
       LET s == w.val[1]
           e == w.val[2]
           res == compute_interval_total_return(code6, s, e, p.stub)
       IN IF ~res.ok THEN GuiErrorRow(name, code6, res.err)
          ELSE
          LET add == compute_additional_and_desc(p, s, e)
              total_return == TotalReturn(res.val.start_close, res.val.end_close,
                                          res.val.dividend_sum_per_share,
                                          RMul(res.val.end_close, add.total))
              days == DaysBetween(s, e)
          IN IF ~total_return.ok THEN GuiErrorRow(name, code6, total_return.err)
             ELSE SuccessRow(res.val, name, code6, add, total_return.val,
                             annualized_return(total_return.val, days))

(***************************************************************************)
(* compute_for_codes: the items resolved, the rows of the unresolved       *)
(* items, and the rows it returns                                          *)
(***************************************************************************)
\* the name map build_code_maps returns when the provider lists are empty:
\* the static entries, one letter standing for each character of a name
static_map ==
    << <<<<"g", "z", "m", "t">>, <<"6", "0", "0", "5", "1", "9">>>>,
       <<<<"w", "l", "y">>, <<"0", "0", "0", "8", "5", "8">>>>,
       <<<<"y", "h", "g", "f">>, <<"0", "0", "2", "3", "0", "4">>>>,
       <<<<"l", "z", "l", "j">>, <<"0", "0", "0", "5", "6", "8">>>> >>

\* s = str(item).strip() of each item
Labels(its) == [i \in 1..Len(its) |-> strip(its[i])]

\* `if rc`: the item resolves to a code that is not empty
IsResolved(label, name_to_code) ==
    LET rc == resolve_to_code(label, name_to_code)
    IN rc # None /\ rc[1] # << >>

\* the list normalized with only the first pair of each code kept
NormalizedDeduplicated(its, name_to_code) ==
    LET kept == SelectSeq(Labels(its), LAMBDA s : IsResolved(s, name_to_code))
        pairs == [j \in 1..Len(kept) |->
                    <<j, resolve_to_code(kept[j], name_to_code)[1], kept[j]>>]
        firsts == SelectSeq(pairs,
                            LAMBDA e : \A k \in 1..(e[1] - 1) : pairs[k][2] # e[2])
    IN [j \in 1..Len(firsts) |-> <<firsts[j][2], firsts[j][3]>>]

\* the list normalized of (code, label) pairs, in input order
normalized_pairs(its, name_to_code) ==
    LET kept == SelectSeq(Labels(its), LAMBDA s : IsResolved(s, name_to_code))
    IN [j \in 1..Len(kept) |-> <<resolve_to_code(kept[j], name_to_code)[1], kept[j]>>]

\* the list unresolved_items, in input order
unresolved_items(its, name_to_code) ==
    SelectSeq(Labels(its), LAMBDA s : ~IsResolved(s, name_to_code))

\* one error row for each unresolved item
UnresolvedRows(its, name_to_code) ==
    LET labels == unresolved_items(its, name_to_code)
    IN [j \in 1..Len(labels) |->
            GuiErrorRow(labels[j], << >>, "Unknown stock name or code")]

\* the rows compute_for_codes returns against the provider answers prov
compute_for_codes(its, start_date, end_date, prov) ==
    LET pairs == normalized_pairs(its, static_map)
    IN UnresolvedRows(its, static_map)
       \o [j \in 1..Len(pairs) |->
              GuiRow(pairs[j][1], get_stock_name(pairs[j][1], prov[pairs[j][1]]),
                     prov[pairs[j][1]], start_date, end_date)]

(***************************************************************************)
(* cli.run: the console table and the CSV file                             *)
(***************************************************************************)
Hundred == <<100, 1>>

\* "" if the value is None, else the value formatted
NumCell(v) == IF v = None THEN Some("") ELSE Some(v[1])

\* the list `line` of one row: a cell is None where r.get returned None,
\* else Some(text)
ConsoleLine(r) ==
    <<GetOr(r, "name", Some("")),
      GetOr(r, "start_trade_date", Some("")),
      GetOr(r, "end_trade_date", Some("")),
      IF Get(r, "start_close") = None THEN Some("") ELSE Some(Fmt4(r.start_close[1])),
      IF Get(r, "end_close") = None THEN Some("") ELSE Some(Fmt4(r.end_close[1])),
      IF Get(r, "div_sum_per_share") = None THEN Some("")
      ELSE Some(Fmt4(r.div_sum_per_share[1])),
      NumCell(Get(r, "div_event_count")),
      IF Get(r, "total_return") = None THEN Some("")
      ELSE Some(Fmt4(RMul(r.total_return[1], Hundred))),
      NumCell(Get(r, "annualized_return")),
      GetOr(r, "bonus_allot_desc", Some("")),
      GetOr(r, "error", Some(""))>>

\* the messages of the exceptions cli.run raises itself
NoStocksConfigured ==
    "No stocks configured. Please add at least one stock code in config.yaml."
JoinTypeError == "TypeError: sequence item: expected str instance, NoneType found"

\* ",".join(line) raises TypeError on a cell that is not a str
JoinRaises(line) == \E i \in 1..Len(line) : line[i] = None

\* pd.DataFrame(rows) with the two percent columns: a key a row lacks and a
\* None are both an empty cell
CsvColumns(rs) == UNION {DOMAIN rs[i] : i \in 1..Len(rs)}
CsvRow(r, columns) ==
    [k \in columns \cup {"total_return_pct", "annualized_return_pct"} |->
        CASE k = "total_return_pct" ->
                IF Get(r, "total_return") = None THEN None
                ELSE Some(RMul(r.total_return[1], Hundred))
          [] k = "annualized_return_pct" -> Get(r, "annualized_return")
          [] OTHER -> Get(r, k)]

(***************************************************************************)
(* Specification of the two front ends over one stubbed provider, in the   *)
(* order of _compare_gui_cli.main: compute_for_codes on the configured     *)
(* codes (here also with an item that is no code and no name), then        *)
(* cli.run on the same configuration.                                      *)
(***************************************************************************)
Code519 == <<"6", "0", "0", "5", "1", "9">>
CodeOne == <<"1">>
UnknownItem == <<"x">>

StockLists == {<< >>, <<Code519>>, <<Code519, CodeOne>>}

\* str(s.code).zfill(6)
Code6(c) == zfill(c, SymbolWidth)

\* the provider's answers for one stock
WindowCases ==
    {<<HistRaises, {}>>, <<HistFrame({}, TRUE), {}>>, <<HistFrame({}, TRUE), {1, 2}>>,
     <<HistFrame({1, 2, Today}, FALSE), {}>>, <<HistFrame({2}, FALSE), {}>>}

ProviderCases ==
    {[own |-> w[1], refDates |-> w[2],
      stub |-> Stub(cs, ce, x[1], x[2], << >>),
      again |-> x[3], info |-> None, listing |-> None] :
        w \in WindowCases,
        cs \in {CloseAnswer("norow", Zero), CloseAnswer("close", Zero),
                CloseAnswer("close", One), CloseAnswer("close", <<10, 1>>)},
        ce \in {CloseAnswer("nan", Zero), CloseAnswer("close", <<12, 1>>)},
        x \in {<<<< >>, << >>, "same">>,
                <<<<DividendEvent(2, <<1, 2>>)>>, <<BonusRow(Some(2), Some(<<1, 1>>), None)>>, "same">>,
                <<<<DividendEvent(2, <<1, 2>>)>>, <<BonusRow(Some(2), Some(<<1, 1>>), None)>>, "raises">>,
                <<<<DividendEvent(2, <<1, 2>>)>>, <<BonusRow(Some(2), Some(<<1, 1>>), None)>>, "other">>}}

Init ==
    /\ cfg \in [stocks : StockLists, start_date : {1}, end_date : {None, Some(Today)}]
    /\ provider \in [{Code6(cfg.stocks[i]) : i \in 1..Len(cfg.stocks)} -> ProviderCases]
    /\ LET codes == [i \in 1..Len(cfg.stocks) |-> Code6(cfg.stocks[i])]
       IN items \in {codes, <<UnknownItem>> \o codes}
    /\ config_data = None
    /\ gui_pc = "start"
    /\ normalized = << >>
    /\ gui_rows = << >>
    /\ cli_pc = "start"
    /\ cli_i = 1
    /\ rows = << >>
    /\ console = << >>
    /\ csv = None
    /\ cli_error = None
    /\ SymbolIdle
    /\ DividendsIdle
    /\ WindowIdle
    /\ CalcIdle
    /\ ExtIdle

otherVars == <<symVars, divVars, winVars, calcVars, extVars>>

\* compute_for_codes up to its loop: the items resolved, one error row for
\* each unresolved item
GuiResolve ==
    /\ gui_pc = "start"
    /\ normalized' = normalized_pairs(items, static_map)
    /\ gui_rows' = UnresolvedRows(items, static_map)
    /\ gui_pc' = "loop"
    /\ UNCHANGED <<envVars, cliVars, otherVars>>

\* one round of the loop over normalized
GuiStock ==
    /\ gui_pc = "loop"
    /\ normalized # << >>
    /\ LET code6 == Head(normalized)[1]
           p == provider[code6]
       IN gui_rows' = Append(gui_rows,
              GuiRow(code6, get_stock_name(code6, p), p, cfg.start_date, cfg.end_date))
    /\ normalized' = Tail(normalized)
    /\ UNCHANGED <<gui_pc, envVars, cliVars, otherVars>>

GuiReturn ==
    /\ gui_pc = "loop"
    /\ normalized = << >>
    /\ gui_pc' = "returned"
    /\ UNCHANGED <<normalized, gui_rows, envVars, cliVars, otherVars>>

\* `if not cfg.stocks: raise ValueError(...)` on the configuration loaded
CliLoad ==
    /\ gui_pc \in {"returned", "idle"}
    /\ cli_pc = "start"
    /\ IF cfg.stocks = << >>
       THEN cli_pc' = "raised" /\ cli_error' = Some(NoStocksConfigured)
       ELSE cli_pc' = "loop" /\ cli_error' = cli_error
    /\ UNCHANGED <<cli_i, rows, console, csv, envVars, guiVars, otherVars>>

\* one round of `for s in cfg.stocks`
CliStock ==
    /\ cli_pc = "loop"
    /\ cli_i <= Len(cfg.stocks)
    /\ LET code6 == Code6(cfg.stocks[cli_i])
           p == provider[code6]
       IN rows' = Append(rows, CliRow(code6, get_stock_name(code6, p), p, cfg))
    /\ cli_i' = cli_i + 1
    /\ UNCHANGED <<cli_pc, console, csv, cli_error, envVars, guiVars, otherVars>>

\* the console summary: the lines up to the first one that cannot be joined
CliPrint ==
    /\ cli_pc = "loop"
    /\ cli_i > Len(cfg.stocks)
    /\ LET lines == [i \in 1..Len(rows) |-> ConsoleLine(rows[i])]
           bad == {i \in 1..Len(rows) : JoinRaises(lines[i])}
       IN IF bad = {}
          THEN console' = lines /\ cli_pc' = "save" /\ cli_error' = cli_error
          ELSE /\ console' = SubSeq(lines, 1, Min(bad) - 1)
               /\ cli_pc' = "raised"
               /\ cli_error' = Some(JoinTypeError)
    /\ UNCHANGED <<cli_i, rows, csv, envVars, guiVars, otherVars>>

\* the CSV file written and the result returned
CliSaveCsv ==
    /\ cli_pc = "save"
    /\ csv' = Some([i \in 1..Len(rows) |-> CsvRow(rows[i], CsvColumns(rows))])
    /\ cli_pc' = "returned"
    /\ UNCHANGED <<cli_i, rows, console, cli_error, envVars, guiVars, otherVars>>

Next == GuiResolve \/ GuiStock \/ GuiReturn \/ CliLoad \/ CliStock \/ CliPrint \/ CliSaveCsv

Spec == Init /\ [][Next]_vars

(***************************************************************************)
(* _compare_gui_cli: key_fields, approx_equal and compare_rows             *)
(***************************************************************************)
KeyFieldNames ==
    {"code", "name", "start_trade_date", "end_trade_date", "start_close", "end_close",
     "div_sum_per_share", "div_event_count", "additional_shares_per_share",
     "additional_event_count", "additional_value_per_share", "bonus_allot_desc",
     "total_return", "annualized_return", "error"}

key_fields(row) == [k \in KeyFieldNames |-> Get(row, k)]

ExactFields == {"bonus_allot_desc", "error", "start_trade_date", "end_trade_date"}
CountFields == {"div_event_count", "additional_event_count"}
CheckedFields == KeyFieldNames \ {"code", "name"}

\* the denominator of the tolerance 1e-6
ToleranceDen == 1000000

\* abs(float(a) - float(b)) <= tol for two floats
WithinTolerance(a, b) ==
    LET diff == RSub(a, b)
    IN Abs(diff[1]) <= diff[2] \div ToleranceDen

\* approx_equal on the values of one field; the annualized return, kept as
\* a term, is compared through its base and its number of days
approx_equal(a, b, field) ==
    IF a = None /\ b = None THEN TRUE
    ELSE IF a = None \/ b = None THEN FALSE
    ELSE IF field \in CountFields THEN a[1] = b[1]
    ELSE IF field = "annualized_return"
         THEN WithinTolerance(a[1].base, b[1].base) /\ a[1].per_days = b[1].per_days
    ELSE WithinTolerance(a[1], b[1])

\* {r.get("code"): key_fields(r) for r in rs}: the last row of each code
RowMap(rs) ==
    [c \in {Get(rs[i], "code") : i \in 1..Len(rs)} |->
        key_fields(rs[Max({i \in 1..Len(rs) : Get(rs[i], "code") = c})])]

\* the differences compare_rows reports, as pairs <<code, field>>
compare_rows(g_rows, c_rows) ==
    LET gui_map == RowMap(g_rows)
        cli_map == RowMap(c_rows)
    IN {<<c, "GUI missing">> : c \in DOMAIN cli_map \ DOMAIN gui_map}
       \cup {<<c, "CLI missing">> : c \in DOMAIN gui_map \ DOMAIN cli_map}
       \cup {d \in (DOMAIN gui_map \cap DOMAIN cli_map) \X CheckedFields :
                LET gv == gui_map[d[1]][d[2]]
                    cv == cli_map[d[1]][d[2]]
                IN ~(IF d[2] \in ExactFields THEN gv = cv ELSE approx_equal(gv, cv, d[2]))}

(***************************************************************************)
(* Properties of the two front ends                                        *)
(***************************************************************************)
\* C1: whenever the configured stock list is not empty cli.run completes,
\* whatever the provider answers: it never raises, and when it returns it
\* has printed one console line per row, written the CSV and holds exactly
\* one row per configured stock, in configuration order.
BatchNeverAborts ==
    /\ cfg.stocks # << >> => cli_pc # "raised"
    /\ cli_pc = "returned" =>
          /\ Len(rows) = Len(cfg.stocks)
          /\ \A i \in 1..Len(rows) : Get(rows[i], "code") = Some(Code6(cfg.stocks[i]))
          /\ Len(console) = Len(rows)
          /\ csv # None

\* C2: once both front ends have returned, compare_rows finds no field on
\* which the row of compute_for_codes and the row of cli.run of the same
\* code differ, for success rows and for error rows alike.
FrontEndRowsAgree ==
    (gui_pc = "returned" /\ cli_pc = "returned") =>
        \A d \in compare_rows(gui_rows, rows) : d[2] \notin CheckedFields

NumericFields ==
    {"start_close", "end_close", "div_sum_per_share", "div_event_count", "total_return"}

IsSuccessRow(r) ==
    Get(r, "error") = None /\ \A k \in NumericFields : Get(r, k) # None
IsErrorRow(r) ==
    Get(r, "error") # None /\ \A k \in NumericFields : Get(r, k) = None

AllRows == {gui_rows[i] : i \in 1..Len(gui_rows)} \cup {rows[i] : i \in 1..Len(rows)}

\* C3: every row of cli.run and of compute_for_codes either has no error
\* and all of start_close, end_close, div_sum_per_share, div_event_count
\* and total_return, or has an error and none of them; never a mixture.
RowIsErrorOrNumeric ==
    \A r \in AllRows : (IsSuccessRow(r) \/ IsErrorRow(r)) /\ ~(IsSuccessRow(r) /\ IsErrorRow(r))

\* both front ends have returned, each with a success row and an error row,
\* the front end for the desktop also with the row of an unresolved item
RowKindsWitness ==
    /\ gui_pc = "returned"
    /\ cli_pc = "returned"
    /\ \E i, j \in 1..Len(rows) : IsSuccessRow(rows[i]) /\ IsErrorRow(rows[j])
    /\ \E i, j, k \in 1..Len(gui_rows) :
          /\ IsSuccessRow(gui_rows[i])
          /\ IsErrorRow(gui_rows[j]) /\ Get(gui_rows[j], "code") # Some(<< >>)
          /\ IsErrorRow(gui_rows[k]) /\ Get(gui_rows[k], "code") = Some(<< >>)

SuccessRows == {r \in AllRows : IsSuccessRow(r)}
RowDays(r) == DaysBetween(r.start_trade_date[1], r.end_trade_date[1])

\* the annualized return of a success row is the term of the formula
\* (1 + total_return) ** (365 / days) - 1, which over 365 days has the
\* value of total_return
AnnualizedIsFormula(r) ==
    r.annualized_return # None =>
        /\ r.annualized_return[1].base = RAdd(One, r.total_return[1])
        /\ r.annualized_return[1].per_days = RowDays(r)
        /\ RowDays(r) = 365 => REq(AnnualizedValue(r.annualized_return[1]), r.total_return[1])

\* C26: in every success row of cli.run and of compute_for_codes,
\* additional_value_per_share is end_close times the row's
\* additional_shares_per_share, and total_return times start_close is
\* end_close + div_sum_per_share + additional_value_per_share - start_close,
\* also when the second additional-shares query raised or answered
\* differently from the calculator's.
DerivedFieldsConsistent ==
    \A r \in SuccessRows :
        /\ REq(r.additional_value_per_share[1],
               RMul(r.end_close[1], r.additional_shares_per_share[1]))
        /\ REq(RMul(r.total_return[1], r.start_close[1]),
               RSub(RAdd(RAdd(r.end_close[1], r.div_sum_per_share[1]),
                         r.additional_value_per_share[1]),
                    r.start_close[1]))

\* both front ends have returned success rows for a stock whose second
\* query listed the bonus twice and for a stock whose second query raised
DerivedFieldsWitness ==
    /\ gui_pc = "returned"
    /\ cli_pc = "returned"
    /\ \E c, d \in DOMAIN provider :
          /\ provider[c].again = "other"
          /\ provider[d].again = "raises"
          /\ \E r1, r2 \in SuccessRows :
                /\ r1.code = Some(c) /\ r1.additional_shares_per_share = Some(<<1, 5>>)
                /\ r2.code = Some(d) /\ r2.additional_shares_per_share = Some(Zero)

\* C13 as stated: in every success row annualized_return is absent exactly
\* when the whole-day difference of end_trade_date and start_trade_date is
\* <= 0, and otherwise equals (1 + total_return) ** (365 / days) - 1, which
\* over 365 days is total_return.
AnnualizedAbsentOnlyWithoutDays ==
    \A r \in SuccessRows :
        /\ r.annualized_return = None <=> RowDays(r) <= 0
        /\ AnnualizedIsFormula(r)

\* C13, amended: in every success row annualized_return is absent exactly
\* when the whole-day difference is <= 0 or the power overflows the float
\* range, and otherwise equals (1 + total_return) ** (365 / days) - 1,
\* which over 365 days is total_return.
AnnualizedAbsentWithoutDaysOrOnOverflow ==
    \A r \in SuccessRows :
        /\ r.annualized_return = None <=>
              \/ RowDays(r) <= 0
              \/ FloatPowOverflows(RAdd(One, r.total_return[1]), RowDays(r))
        /\ AnnualizedIsFormula(r)

\* cli.run has returned a success row over 365 days with an annualized
\* return and a success row over no day without one
AnnualizedWitness ==
    /\ cli_pc = "returned"
    /\ \E i, j \in 1..Len(rows) :
          /\ IsSuccessRow(rows[i]) /\ RowDays(rows[i]) = 365
          /\ rows[i].annualized_return # None
          /\ IsSuccessRow(rows[j]) /\ RowDays(rows[j]) = 0
          /\ rows[j].annualized_return = None

(***************************************************************************)
(* Specification of the code normalisation: every text over CodeAlphabet   *)
(* up to MaxCodeLen characters, and the literal codes of the               *)
(* documentation, handed to _to_exchange_symbol.                           *)
(***************************************************************************)
CodeAlphabet == {"0", "1", "s", " "}

ExampleCodes ==
    { <<"6", "0", "0", "5", "1", "9">>,
      <<"s", "h", "6", "0", "0", "5", "1", "9">>,
      <<"s", "z", "0", "0", "0", "0", "0", "1">>,
      <<"1">>,
      <<"-", "1">> }

CodeInputs ==
    ExampleCodes \cup UNION { [1..n -> CodeAlphabet] : n \in 0..MaxCodeLen }

InitSymbol ==
    /\ code \in CodeInputs
    /\ symbol = None
    /\ DividendsIdle
    /\ WindowIdle
    /\ CalcIdle
    /\ RunIdle
    /\ ExtIdle

Normalize ==
    /\ symbol = None
    /\ symbol' = Some(to_exchange_symbol(code))
    /\ UNCHANGED <<code, divVars, winVars, calcVars, runVars, extVars>>

NextSymbol == Normalize

SpecSymbol == InitSymbol /\ [][NextSymbol]_vars

\* C10: every code that is non-empty after stripping is normalised to a
\* 6-digit zero-padded numeric string, and a code that is empty after
\* stripping fails with an error.
SymbolIsSixDigits ==
    symbol # None =>
        LET r == symbol[1] IN
        IF strip(code) = << >>
        THEN ~r.ok
        ELSE r.ok /\ Len(r.val) = SymbolWidth /\ isdigit(r.val)

(***************************************************************************)
(* ak_client._parse_cash_per_share_from_text.  A plan text is a sequence   *)
(* of characters; a Chinese character is written as its reading ("mei",    *)
(* "gu", "pai", "xi", "fa", "xian", "jin", "hong", "li", "yuan", "song",   *)
(* "zhuan", "han", "shui", "bu", "fen", "pei", "zeng"), a full-width       *)
(* parenthesis as "fw(" or "fw)".  The empty sequence also stands for an   *)
(* argument that is not a str.                                             *)
(***************************************************************************)
\* most fragments a generated plan text is put together from
MaxFragments == 3

\* the regular expressions the parser uses, up to the captured group
Lit(s) == [k |-> "lit", s |-> s]
Opt(r) == [k |-> "opt", r |-> r]
Plus(cls) == [k |-> "plus", cls |-> cls]
Star(cls) == [k |-> "star", cls |-> cls]
Cat(rs) == [k |-> "cat", rs |-> rs]

\* the positions at which a match of r that starts after position i may end
RECURSIVE Ends(_, _, _)
RECURSIVE CatEnds(_, _, _)
Ends(r, t, i) ==
    CASE r.k = "lit" ->
            IF i + Len(r.s) <= Len(t) /\ SubSeq(t, i + 1, i + Len(r.s)) = r.s
            THEN {i + Len(r.s)} ELSE {}
      [] r.k = "opt" -> {i} \cup Ends(r.r, t, i)
      [] r.k = "plus" -> {j \in (i + 1)..Len(t) : \A h \in (i + 1)..j : t[h] \in r.cls}
      [] r.k = "star" ->
            {i} \cup {j \in (i + 1)..Len(t) : \A h \in (i + 1)..j : t[h] \in r.cls}
      [] OTHER -> CatEnds(r.rs, t, {i})
CatEnds(rs, t, from) ==
    IF rs = << >> THEN from
    ELSE CatEnds(Tail(rs), t, UNION {Ends(Head(rs), t, i) : i \in from})

\* [\d\.]
DigitOrDot == Digits \cup {"."}

\* a pattern prefix([\d\.]+)元suffix
Pattern(prefix, suffix) == [prefix |-> prefix, suffix |-> <<"yuan">> \o suffix]

\* the texts group 1 can hold in a match of pat that starts after position i
Groups(pat, t, i) ==
    UNION {{SubSeq(t, p + 1, q) :
               q \in {q \in Ends(Plus(DigitOrDot), t, p) : Ends(Lit(pat.suffix), t, q) # {}}} :
           p \in Ends(pat.prefix, t, i)}

\* re.search(pat, t): group 1 of the leftmost match, None without a match
search(pat, t) ==
    LET starts == {i \in 0..Len(t) : Groups(pat, t, i) # {}}
    IN IF starts = {} THEN None
       ELSE Some(CHOOSE g \in Groups(pat, t, Min(starts)) : TRUE)

DigitValue ==
    [c \in Digits |->
        CASE c = "0" -> 0 [] c = "1" -> 1 [] c = "2" -> 2 [] c = "3" -> 3 [] c = "4" -> 4
          [] c = "5" -> 5 [] c = "6" -> 6 [] c = "7" -> 7 [] c = "8" -> 8 [] OTHER -> 9]

RECURSIVE IntOf(_)
IntOf(ds) == IF ds = << >> THEN 0 ELSE 10 * IntOf(SubSeq(ds, 1, Len(ds) - 1)) + DigitValue[ds[Len(ds)]]

RECURSIVE PowerOfTen(_)
PowerOfTen(n) == IF n = 0 THEN 1 ELSE 10 * PowerOfTen(n - 1)

\* float(amt) for a text of digits and points: a ValueError unless it has
\* a digit and at most one point
to_float(amt) ==
    LET points == {i \in 1..Len(amt) : amt[i] = "."}
        digits == SelectSeq(amt, LAMBDA c : c \in Digits)
    IN IF Cardinality(points) > 1 \/ digits = << >>
       THEN Raise("could not convert string to float")
       ELSE Ok(Norm(IntOf(digits),
                    IF points = {} THEN 1
                    ELSE PowerOfTen(Len(amt) - (CHOOSE i \in points : TRUE))))

\* plan_text.replace("（", "(").replace("）", ")").replace(" ", "").lower()
CleanText(t) ==
    lower([i \in 1..Len(SelectSeq(t, LAMBDA c : c # " ")) |->
            LET c == SelectSeq(t, LAMBDA d : d # " ")[i]
            IN IF c = "fw(" THEN "(" ELSE IF c = "fw)" THEN ")" ELSE c])

OptionalCash == <<Opt(Lit(<<"xian", "jin">>)), Opt(Lit(<<"hong", "li">>))>>
OptionalFraction == Opt(Cat(<<Lit(<<".">>), Plus(Digits)>>))

PerSharePattern ==
    Pattern(Cat(<<Lit(<<"mei", "gu", "pai">>), Opt(Lit(<<"fa">>))>> \o OptionalCash), << >>)
PerShareInterestPattern ==
    Pattern(Cat(<<Lit(<<"mei", "gu", "pai", "xi">>)>> \o OptionalCash), << >>)

patterns ==
    <<Pattern(Lit(<<"1", "0", "pai">>), << >>),
      Pattern(Cat(<<Lit(<<"mei", "1", "0", "gu", "pai">>), Opt(Lit(<<"fa">>))>> \o OptionalCash),
              << >>),
      Pattern(Cat(<<Lit(<<"mei", "1", "0", "gu">>), Opt(Lit(<<"pai", "fa">>))>> \o OptionalCash),
              << >>),
      Pattern(Cat(<<Lit(<<"1", "0", "song">>), Plus(Digits), OptionalFraction,
                    Opt(Lit(<<"gu">>)), Opt(Lit(<<"zhuan">>)), Star(Digits), OptionalFraction,
                    Opt(Lit(<<"gu">>)), Lit(<<"pai">>)>>), << >>),
      Pattern(Lit(<<"1", "0", "pai">>), <<"(", "han", "shui", ")">>)>>

AnyCashPattern == Pattern(Lit(<<"pai">>), << >>)

\* the per-10-shares amount taken for the per-share amount
PerTenSharesUndivided(x) == x

\* float(amt) / 10.0
PerTenShares(x) == RQuot(x, Ten)

\* the loop over patterns, from pattern n on: the first pattern that matches
\* with an amount float accepts
RECURSIVE PatternLoop(_, _)
PatternLoop(t, n) ==
    IF n > Len(patterns) THEN None
    ELSE LET m == search(patterns[n], t)
         IN IF m # None /\ to_float(m[1]).ok THEN Some(PerTenShares(to_float(m[1]).val))
            ELSE PatternLoop(t, n + 1)

parse_cash_per_share_from_text(t0) ==
    IF t0 = << >> THEN Zero
    ELSE
    LET t == CleanText(t0)
        m_ps == IF search(PerSharePattern, t) # None THEN search(PerSharePattern, t)
                ELSE search(PerShareInterestPattern, t)
        looped == PatternLoop(t, 1)
        m2 == search(AnyCashPattern, t)
    IN IF m_ps # None /\ to_float(m_ps[1]).ok THEN to_float(m_ps[1]).val
       ELSE IF looped # None THEN looped[1]
       ELSE IF m2 # None /\ (IsSubstring(<<"mei", "1", "0", "gu">>, t)
                             \/ (Len(t) >= 2 /\ SubSeq(t, 1, 2) = <<"1", "0">>))
            THEN IF to_float(m2[1]).ok THEN PerTenShares(to_float(m2[1]).val) ELSE Zero
       ELSE Zero

(***************************************************************************)
(* Specification of the plan-text parser: the ten texts of the parser test *)
(* and the texts put together from at most MaxFragments fragments.         *)
(***************************************************************************)
\* the cases of _test_parsing.run_tests: <<text, expected>>
LiteralCases ==
    {<<<<"1", "0", "pai", "5", "yuan", "(", "han", "shui", ")">>, <<1, 2>>>>,
     <<<<"mei", "1", "0", "gu", "pai", "4", ".", "3", "yuan", "(", "han", "shui", ")">>,
       <<43, 100>>>>,
     <<<<"1", "0", "song", "3", "gu", "zhuan", "2", "gu", "pai", "3", "yuan",
         "(", "han", "shui", ")">>, <<3, 10>>>>,
     <<<<"1", "0", "pai", "1", ".", "2", "yuan", "zhuan", "4", "gu">>, <<12, 100>>>>,
     <<<<"mei", "gu", "pai", "0", ".", "5", "yuan">>, <<1, 2>>>>,
     <<<<"mei", "gu", "pai", "xi", "0", ".", "8", "yuan">>, <<4, 5>>>>,
     <<<<"mei", "1", "0", "gu", "pai", "fa", "xian", "jin", "hong", "li",
         "5", ".", "5", "yuan">>, <<55, 100>>>>,
     <<<<"bu", "fen", "pei", "bu", "zhuan", "zeng">>, Zero>>,
     <<<<"1", "0", "pai", "0", "yuan">>, Zero>>,
     <<<<"mei", "1", "0", "gu", "pai", " ", " ", "2", " ", "yuan">>, <<2, 10>>>>}

\* amounts as they are written, with their values
Amounts == {<<<<"5">>, <<5, 1>>>>, <<<<"1", ".", "2">>, <<6, 5>>>>}

PerShareLeads == {<<"mei", "gu", "pai">>, <<"mei", "gu", "pai", "xi">>}
PerTenLeads ==
    {<<"1", "0", "pai">>, <<"mei", "1", "0", "gu", "pai">>,
     <<"mei", "1", "0", "gu", "pai", "fa", "xian", "jin", "hong", "li">>,
     <<"1", "0", "song", "3", "gu", "zhuan", "2", "gu", "pai">>}

Fragments ==
    PerShareLeads \cup PerTenLeads \cup {a[1] : a \in Amounts}
    \cup {<<"yuan">>, <<"pai">>, <<".">>, <<" ">>, <<"fw(", "han", "shui", "fw)">>}

RECURSIVE Concat(_)
Concat(fs) == IF fs = << >> THEN << >> ELSE Head(fs) \o Concat(Tail(fs))

PlanTexts ==
    {c[1] : c \in LiteralCases}
    \cup {Concat(fs) : fs \in UNION {[1..n -> Fragments] : n \in 0..MaxFragments}}

InitParse ==
    /\ plan_text \in PlanTexts
    /\ parsed = None
    /\ ParseRestIdle

Parse ==
    /\ parsed = None
    /\ parsed' = Some(parse_cash_per_share_from_text(plan_text))
    /\ UNCHANGED <<plan_text, parseRest>>

NextParse == Parse

SpecParse == InitParse /\ [][NextParse]_vars

\* the phrasings of an amount: a lead, the amount, "yuan", and possibly
\* the remark "(han shui)"
Phrasings(leads, amount) ==
    {lead \o amount \o <<"yuan">> \o tail :
        lead \in leads, tail \in {<< >>, <<"(", "han", "shui", ")">>}}

\* C11: the parser returns the amount X unchanged for a per-share phrasing,
\* X / 10 for a per-10-shares phrasing and 0 for a text without "yuan",
\* after the parentheses are normalized and the spaces removed; it returns
\* the expected amount for each of the ten cases of the parser test; and
\* its result is never negative.
ParserContract ==
    parsed # None =>
        /\ \A a \in Amounts :
              /\ CleanText(plan_text) \in Phrasings(PerShareLeads, a[1]) => REq(parsed[1], a[2])
              /\ CleanText(plan_text) \in Phrasings(PerTenLeads, a[1])
                    => REq(parsed[1], RQuot(a[2], Ten))
        /\ (\A i \in 1..Len(plan_text) : plan_text[i] # "yuan") => parsed[1] = Zero
        /\ \A c \in LiteralCases : plan_text = c[1] => REq(parsed[1], c[2])
        /\ parsed[1][1] >= 0 /\ parsed[1][2] > 0

\* a per-10-shares phrasing with spaces inside, parsed to a tenth of its
\* amount
ParserWitness ==
    /\ plan_text = <<"mei", "1", "0", "gu", "pai", " ", " ", "2", " ", "yuan">>
    /\ parsed = Some(<<1, 5>>)

(***************************************************************************)
(* Specification of resolve_to_code: texts over a small alphabet against   *)
(* the maps build_code_maps can return, whose names are stripped and not   *)
(* empty and whose codes have at least six characters.                     *)
(***************************************************************************)
\* longest generated text handed to resolve_to_code
MaxTextLen == 3
\* most entries of a generated name map
MaxMapSize == 2

TextAlphabet == {"a", "A", "b", " ", "1"}
SevenDigits == <<"1", "1", "1", "1", "1", "1", "1">>
ResolveTexts ==
    UNION {[1..n -> TextAlphabet] : n \in 0..MaxTextLen} \cup {SevenDigits}

MapNames == {<<"a">>, <<"a", "b">>, <<"A", "b">>, <<"b">>, <<"1", "a">>}
MapCodes == {<<"6", "0", "0", "5", "1", "9">>, <<"0", "0", "0", "8", "5", "8">>}
NameMaps ==
    {m \in UNION {[1..n -> MapNames \X MapCodes] : n \in 0..MaxMapSize} :
        \A i, j \in 1..Len(m) : m[i][1] = m[j][1] => i = j}

InitResolve ==
    /\ res_text \in ResolveTexts
    /\ res_map \in NameMaps
    /\ res_out = None
    /\ ResolveRestIdle

Resolve ==
    /\ res_out = None
    /\ res_out' = Some(resolve_to_code(res_text, res_map))
    /\ UNCHANGED <<res_text, res_map, resolveRest>>

NextResolve == Resolve

SpecResolve == InitResolve /\ [][NextResolve]_vars

\* the entries of the map whose name is the input, is the input up to
\* case, or contains or is contained in the input
ExactEntries == {i \in 1..Len(res_map) : res_map[i][1] = strip(res_text)}
FoldedEntries == {i \in 1..Len(res_map) : lower(res_map[i][1]) = lower(strip(res_text))}
SubstringEntries ==
    {i \in 1..Len(res_map) :
        \/ IsSubstring(strip(res_text), res_map[i][1])
        \/ IsSubstring(res_map[i][1], strip(res_text))}

\* C12: for a non-blank input, an all-digit input of at most 6 characters
\* is returned zero-padded whatever the map holds; otherwise the code of
\* the exact name, else of the first name equal up to case, else of the
\* first name that contains or is contained in the input; None only when
\* there is no such name.
ResolvePrecedence ==
    (res_out # None /\ strip(res_text) # << >>) =>
        LET s == strip(res_text)
            result == res_out[1]
        IN IF isdigit(s) /\ Len(s) <= 6 THEN result = Some(zfill(s, 6))
           ELSE IF ExactEntries # {} THEN \E i \in ExactEntries : result = Some(res_map[i][2])
           ELSE IF FoldedEntries # {} THEN result = Some(res_map[Min(FoldedEntries)][2])
           ELSE IF SubstringEntries # {} THEN result = Some(res_map[Min(SubstringEntries)][2])
           ELSE result = None

\* an input with an exact name, an earlier name equal up to case, both with
\* different codes, res_out to the code of the exact name
ResolveWitness ==
    /\ res_out # None
    /\ ExactEntries # {}
    /\ \E i \in FoldedEntries : i < Min(ExactEntries) /\ res_map[i][2] # res_out[1][1]
    /\ res_out[1] = Some(res_map[Min(ExactEntries)][2])

(***************************************************************************)
(* web_app: POST /calculate and GET /export of two clients.  The server    *)
(* handles requests in threads, so a handler is split where it reads or    *)
(* writes LAST_ROWS.                                                       *)
(***************************************************************************)
\* most requests the server receives
MaxRequests == 4

Clients == {"A", "B"}

\* text.split(sep) for a one-character separator
RECURSIVE split(_, _)
split(s, sep) ==
    LET at == {i \in 1..Len(s) : s[i] = sep}
    IN IF at = {} THEN <<s>>
       ELSE <<SubSeq(s, 1, Min(at) - 1)>> \o split(SubSeq(s, Min(at) + 1, Len(s)), sep)

\* the parts of the stocks field: split at commas, full-width commas
\* ("fw,") and spaces, stripped, the empty parts dropped
parse_codes_input(text) ==
    LET commas == [i \in 1..Len(text) |->
                      IF text[i] \in {"fw,", " "} THEN "," ELSE text[i]]
    IN SelectSeq([i \in 1..Len(split(commas, ",")) |-> strip(split(commas, ",")[i])],
                 LAMBDA part : part # << >>)

\* a form field counted as never blank
NeverBlank(field) == FALSE

\* `not field` after .strip()
IsBlank(field) == strip(field) = << >>

\* export serving the rows of the client's own last result page
ServeOwnRows(c, last, pages) == IF pages[c] = None THEN last ELSE pages[c][1]

\* the rows /export writes and sends: the list LAST_ROWS
ServedRows(c, last, pages) == last

\* the forms a client submits: the stocks field, the start_date field (no
\* character or the text of date 1) and whether compute_for_codes raises
Form(stocks, start_date, raises) ==
    [stocks |-> stocks, start_date |-> start_date, raises |-> raises]
Forms ==
    {Form(<<" ">>, <<"1">>, FALSE), Form(Code519, << >>, FALSE), Form(Code519, <<"1">>, TRUE),
     Form(Code519, <<"1">>, FALSE), Form(<<"x">>, <<"1">>, FALSE), Form(<<",">>, <<"1">>, FALSE)}

\* the provider answers behind the web application
WebProvider ==
    [c \in {Code519} |->
        [own |-> HistFrame({1, 2, Today}, FALSE), refDates |-> {},
         stub |-> Stub(CloseAnswer("close", <<10, 1>>), CloseAnswer("close", <<12, 1>>),
                       << >>, << >>, << >>),
         again |-> "same", info |-> None, listing |-> None]]

\* calculate, lines 59-61: the rows of the stocks field
calculate_rows(stocks_text) ==
    compute_for_codes(parse_codes_input(stocks_text), 1, None, WebProvider)

Idle == [kind |-> "idle"]
Redirect(n, form, flash) == [seq |-> n, form |-> form, kind |-> "redirect", flash |-> flash]

InitWeb ==
    /\ LAST_ROWS = << >>
    /\ web_req = [c \in Clients |-> Idle]
    /\ web_resp = [c \in Clients |-> None]
    /\ web_page = [c \in Clients |-> None]
    /\ last_ok = None
    /\ web_files = << >>
    /\ web_calls = 0
    /\ web_seq = 0
    /\ WebRestIdle

\* calculate, lines 46-64: validation and the call of compute_for_codes
CalculateCompute(c, form) ==
    /\ web_req[c] = Idle
    /\ web_seq < MaxRequests
    /\ web_seq' = web_seq + 1
    /\ IF IsBlank(form.stocks)
       THEN /\ web_resp' = [web_resp EXCEPT ![c] =
                   Some(Redirect(web_seq', Some(form),
                                 "Please enter at least one stock name or 6-digit code."))]
            /\ UNCHANGED <<web_req, web_calls>>
       ELSE IF IsBlank(form.start_date)
       THEN /\ web_resp' = [web_resp EXCEPT ![c] =
                   Some(Redirect(web_seq', Some(form), "Please enter a start date (YYYY-MM-DD)."))]
            /\ UNCHANGED <<web_req, web_calls>>
       ELSE /\ web_calls' = web_calls + 1
            /\ IF form.raises
               THEN /\ web_resp' = [web_resp EXCEPT ![c] =
                           Some(Redirect(web_seq', Some(form), "Error computing results"))]
                    /\ UNCHANGED web_req
               ELSE /\ web_req' = [web_req EXCEPT ![c] =
                           [kind |-> "calculate", seq |-> web_seq', form |-> form,
                            rows |-> calculate_rows(strip(form.stocks))]]
                    /\ UNCHANGED web_resp
    /\ UNCHANGED <<LAST_ROWS, web_page, last_ok, web_files, webRest>>

\* calculate, lines 66-78: the rows cached and the result page rendered
CalculateStore(c) ==
    /\ web_req[c].kind = "calculate"
    /\ LAST_ROWS' = web_req[c].rows
    /\ last_ok' = Some(web_req[c].rows)
    /\ web_page' = [web_page EXCEPT ![c] = Some(web_req[c].rows)]
    /\ web_resp' = [web_resp EXCEPT ![c] =
            Some([seq |-> web_req[c].seq, form |-> Some(web_req[c].form),
                  kind |-> "page", rows |-> web_req[c].rows])]
    /\ web_req' = [web_req EXCEPT ![c] = Idle]
    /\ UNCHANGED <<web_files, web_calls, web_seq, webRest>>

\* export, lines 83-86: the test `not LAST_ROWS`
ExportCheck(c) ==
    /\ web_req[c] = Idle
    /\ web_seq < MaxRequests
    /\ web_seq' = web_seq + 1
    /\ IF LAST_ROWS = << >>
       THEN /\ web_resp' = [web_resp EXCEPT ![c] =
                   Some(Redirect(web_seq', None, "No results to export. Please calculate first."))]
            /\ UNCHANGED web_req
       ELSE /\ web_req' = [web_req EXCEPT ![c] = [kind |-> "export", seq |-> web_seq']]
            /\ UNCHANGED web_resp
    /\ UNCHANGED <<LAST_ROWS, web_page, last_ok, web_files, web_calls, webRest>>

\* export, lines 88-98: the frame built from LAST_ROWS as it is now, the
\* CSV written and sent; df["total_return"] raises KeyError on the frame of
\* an empty list
ExportWrite(c) ==
    /\ web_req[c].kind = "export"
    /\ LET served == ServedRows(c, LAST_ROWS, web_page)
       IN IF served = << >>
          THEN /\ web_resp' = [web_resp EXCEPT ![c] =
                      Some([seq |-> web_req[c].seq, form |-> None, kind |-> "error",
                            flash |-> "KeyError: 'total_return'"])]
               /\ UNCHANGED web_files
          ELSE /\ web_files' = Append(web_files,
                      [i \in 1..Len(served) |-> CsvRow(served[i], CsvColumns(served))])
               /\ web_resp' = [web_resp EXCEPT ![c] =
                      Some([seq |-> web_req[c].seq, form |-> None, kind |-> "file",
                            rows |-> served])]
    /\ web_req' = [web_req EXCEPT ![c] = Idle]
    /\ UNCHANGED <<LAST_ROWS, web_page, last_ok, web_calls, web_seq, webRest>>

NextWeb ==
    \E c \in Clients :
        \/ \E form \in Forms : CalculateCompute(c, form)
        \/ CalculateStore(c)
        \/ ExportCheck(c)
        \/ ExportWrite(c)

SpecWeb == InitWeb /\ [][NextWeb]_vars

\* the response client c receives in this step, None when it receives none
Received(c) == IF web_resp'[c] # web_resp[c] THEN web_resp'[c] ELSE None

\* C14: LAST_ROWS is one slot for all clients: every /calculate that
\* succeeds, of whichever client, writes its rows to it, and every /export
\* download, of whichever client, holds the rows the slot holds then; so a
\* client's export can return the rows computed for another client.
ExportServesSharedSlot ==
    [][\A c \in Clients :
          /\ web_req[c].kind = "calculate" /\ web_req'[c] = Idle
                => LAST_ROWS' = web_req[c].rows
          /\ (Received(c) # None /\ Received(c)[1].kind = "file")
                => Received(c)[1].rows = LAST_ROWS]_vars

\* A calculated, B calculated other rows, and A's export returned B's rows
CrossClientExportWitness ==
    /\ web_page["A"] # None
    /\ web_page["B"] # None
    /\ web_page["A"] # web_page["B"]
    /\ web_resp["A"] # None
    /\ web_resp["A"][1].kind = "file"
    /\ web_resp["A"][1].rows = web_page["B"][1]

\* C15: once a /calculate has succeeded, an /export answers with a
\* download of the rows of the most recent such calculation and writes a
\* web_summary CSV; the answer "No results to export" is given only when
\* no /calculate has succeeded yet.
ExportReturnsLastCalculation ==
    [][\A c \in Clients :
          (Received(c) # None /\ Received(c)[1].form = None) =>
              /\ last_ok # None =>
                    /\ Received(c)[1].kind = "file"
                    /\ Received(c)[1].rows = last_ok[1]
                    /\ Len(web_files') = Len(web_files) + 1
              /\ Received(c)[1].kind = "redirect" => last_ok = None]_vars

\* a field of spaces only
AllSpaces(field) == \A i \in 1..Len(field) : field[i] = " "

\* the form of the /calculate request that client c sends in this step,
\* None when it sends none
Submitted(c) ==
    IF web_seq' = web_seq
    THEN None
    ELSE IF web_req'[c].kind = "calculate" THEN Some(web_req'[c].form)
    ELSE IF Received(c) # None THEN Received(c)[1].form
    ELSE None

\* C16: a /calculate whose stocks or start_date field is blank calls
\* compute_for_codes not at all and leaves LAST_ROWS as it is, and one
\* whose computation raises leaves LAST_ROWS as it is; both are answered
\* with a redirect.
FailedCalculateKeepsCache ==
    [][\A c \in Clients :
          Submitted(c) # None =>
              LET form == Submitted(c)[1]
                  blank == AllSpaces(form.stocks) \/ AllSpaces(form.start_date)
              IN /\ blank => web_calls' = web_calls
                 /\ (blank \/ form.raises) =>
                       /\ LAST_ROWS' = LAST_ROWS
                       /\ Received(c) # None
                       /\ Received(c)[1].kind = "redirect"]_vars

\* rows are cached, then A's /calculate is turned down for a blank field
\* and B's for a computation that raises, and a later /export of B still
\* downloads the cached rows
FailedCalculateWitness ==
    /\ last_ok # None
    /\ web_resp["A"] # None
    /\ web_resp["A"][1].kind = "redirect"
    /\ web_resp["A"][1].form # None
    /\ AllSpaces(web_resp["A"][1].form[1].stocks)
    /\ web_resp["B"] # None
    /\ web_resp["B"][1].kind = "file"
    /\ web_resp["B"][1].seq > web_resp["A"][1].seq
    /\ web_resp["B"][1].rows = last_ok[1]
    /\ web_calls = 1

(***************************************************************************)
(* ak_client.fetch_dividends_ths_fallback, fetch_dividends_ths and         *)
(* get_dividends.  An answer of the provider raises, or is a frame: which  *)
(* columns it has and its rows.  A row holds the ex-date cell (None when   *)
(* it is NaN or does not parse as a date), the cell of the cash column     *)
(* (None when it is NaN or not numeric) and the plan text.                 *)
(***************************************************************************)
\* most rows of a provider frame
MaxSourceRows == 2

SourceRow(ex, cash, plan) == [ex |-> ex, cash |-> cash, plan |-> plan]

\* cash_col: "per_share" for a per-share column, "per_ten" for the column
\* of the amount per 10 shares, None when the frame has neither
SourceFrame(has_ex, cash_col, has_plan, frame_rows) ==
    [kind |-> "frame", has_ex |-> has_ex, cash_col |-> cash_col, has_plan |-> has_plan,
     rows |-> frame_rows]
SourceRaises == [kind |-> "raises"]

\* the plan texts of the frames, and _parse_cash_per_share_from_text of each
PlanCells ==
    {<<"bu", "fen", "pei", "bu", "zhuan", "zeng">>, <<"1", "0", "pai", "5", "yuan">>,
     <<"mei", "gu", "pai", "0", ".", "5", "yuan">>}
ParsedPlan == [plan \in PlanCells |-> parse_cash_per_share_from_text(plan)]

\* the loop of fetch_dividends_ths_fallback over the rows still to read
RECURSIVE FallbackLoop(_, _)
FallbackLoop(f, left) ==
    IF left = << >> THEN << >>
    ELSE LET row == Head(left)
             v == row.cash
             numeric == IF f.cash_col # None /\ v # None /\ RPos(v[1])
                        THEN IF f.cash_col = Some("per_ten") THEN RQuot(v[1], Ten) ELSE v[1]
                        ELSE Zero
             cash_per_share == IF ~RPos(numeric) /\ f.has_plan
                               THEN ParsedPlan[row.plan]
                               ELSE numeric
         IN (IF row.ex # None /\ RPos(cash_per_share)
             THEN <<DividendEvent(row.ex[1], cash_per_share)>> ELSE << >>)
            \o FallbackLoop(f, Tail(left))

fetch_dividends_ths_fallback(answer) ==
    IF answer.kind = "raises" \/ answer.rows = << >> \/ ~answer.has_ex THEN << >>
    ELSE FallbackLoop(answer, answer.rows)

\* the loop of fetch_dividends_ths
RECURSIVE ThsLoop(_, _)
ThsLoop(f, left) ==
    IF left = << >> THEN << >>
    ELSE LET row == Head(left)
             cash_per_share == IF f.has_plan THEN ParsedPlan[row.plan] ELSE Zero
         IN (IF row.ex # None /\ RPos(cash_per_share)
             THEN <<DividendEvent(row.ex[1], cash_per_share)>> ELSE << >>)
            \o ThsLoop(f, Tail(left))

fetch_dividends_ths(answer) ==
    IF answer.kind = "raises" \/ answer.rows = << >> \/ ~answer.has_ex THEN << >>
    ELSE ThsLoop(answer, answer.rows)

RECURSIVE SumCash(_)
SumCash(evs) == IF evs = << >> THEN Zero ELSE RAdd(Head(evs).cash_per_share, SumCash(Tail(evs)))

\* the cash of the first event of a day taken for the day's sum
GroupFirst(evs, d) == Head(SelectSeq(evs, LAMBDA e : e.ex_date = d)).cash_per_share

\* groupby("ex_date")["cash"].sum() for the day d
GroupSum(evs, d) == SumCash(SelectSeq(evs, LAMBDA e : e.ex_date = d))

\* the groups in the order of their ex-dates
RECURSIVE GroupLoop(_, _)
GroupLoop(evs, days) ==
    IF days = {} THEN << >>
    ELSE <<DividendEvent(Min(days), GroupSum(evs, Min(days)))>>
         \o GroupLoop(evs, days \ {Min(days)})

\* the events of both sources put together
SourceEventsMerged(primary, secondary) ==
    fetch_dividends_ths_fallback(primary) \o fetch_dividends_ths(secondary)

\* the events the two sources yield: those of the first unless it has none
SourceEvents(primary, secondary) ==
    IF fetch_dividends_ths_fallback(primary) # << >>
    THEN fetch_dividends_ths_fallback(primary)
    ELSE fetch_dividends_ths(secondary)

\* the queries get_dividends issues: the secondary one under `if not events`
SourcesQueried(primary) ==
    IF fetch_dividends_ths_fallback(primary) = << >> THEN <<"primary", "secondary">>
    ELSE <<"primary">>

get_dividends(primary, secondary) ==
    LET evs == SourceEvents(primary, secondary)
    IN GroupLoop(evs, {evs[i].ex_date : i \in 1..Len(evs)})

(***************************************************************************)
(* Specification of get_dividends                                          *)
(***************************************************************************)
SourceRows ==
    {SourceRow(ex, cash, plan) :
        ex \in {None, Some(1), Some(2)}, cash \in {None, Some(Zero), Some(<<3, 10>>)},
        plan \in {<<"bu", "fen", "pei", "bu", "zhuan", "zeng">>,
                  <<"1", "0", "pai", "5", "yuan">>}}
PrimaryAnswers ==
    {SourceRaises}
    \cup {SourceFrame(TRUE, cash_col, has_plan, frame_rows) :
            cash_col \in {None, Some("per_share"), Some("per_ten")}, has_plan \in BOOLEAN,
            frame_rows \in UNION {[1..n -> SourceRows] : n \in 0..MaxSourceRows}}
    \cup {SourceFrame(FALSE, Some("per_share"), TRUE,
                      <<SourceRow(Some(1), Some(<<3, 10>>), <<"1", "0", "pai", "5", "yuan">>)>>)}
SecondaryAnswers ==
    {SourceRaises,
     SourceFrame(TRUE, None, FALSE,
                 <<SourceRow(Some(1), None, <<"1", "0", "pai", "5", "yuan">>)>>),
     SourceFrame(TRUE, None, TRUE,
                 <<SourceRow(Some(2), None, <<"1", "0", "pai", "5", "yuan">>),
                   SourceRow(Some(1), None, <<"mei", "gu", "pai", "0", ".", "5", "yuan">>),
                   SourceRow(Some(2), None, <<"mei", "gu", "pai", "0", ".", "5", "yuan">>)>>)}

InitGetDividends ==
    /\ div_primary \in {Some(a) : a \in PrimaryAnswers}
    /\ div_secondary \in {Some(a) : a \in SecondaryAnswers}
    /\ div_source = << >>
    /\ div_queried = << >>
    /\ div_events = None
    /\ GetdivRestIdle

GetDividends ==
    /\ div_events = None
    /\ div_source' = SourceEvents(div_primary[1], div_secondary[1])
    /\ div_queried' = SourcesQueried(div_primary[1])
    /\ div_events' = Some(get_dividends(div_primary[1], div_secondary[1]))
    /\ UNCHANGED <<div_primary, div_secondary, getdivRest>>

NextGetDividends == GetDividends

SpecGetDividends == InitGetDividends /\ [][NextGetDividends]_vars

\* C17: get_dividends returns at most one event per ex_date; the cash of
\* each returned event is the sum of the cash of the source events of that
\* ex_date, so the total cash of the returned events is that of the source
\* events; and every returned cash is strictly positive.
DividendsGroupedByExDate ==
    div_events # None =>
        LET out == div_events[1]
            source == div_source
        IN /\ \A i, j \in 1..Len(out) : out[i].ex_date = out[j].ex_date => i = j
           /\ \A i \in 1..Len(out) :
                 /\ REq(out[i].cash_per_share,
                        SumCash(SelectSeq(source, LAMBDA e : e.ex_date = out[i].ex_date)))
                 /\ RPos(out[i].cash_per_share)
           /\ {out[i].ex_date : i \in 1..Len(out)} = {source[i].ex_date : i \in 1..Len(source)}
           /\ REq(SumCash(out), SumCash(source))

\* two source events of one ex_date returned as one event with their sum
DividendsGroupedWitness ==
    /\ div_events # None
    /\ Len(div_source) = 2
    /\ Len(div_events[1]) = 1
    /\ div_events[1][1].cash_per_share = <<3, 5>>

\* a row of the primary frame f that carries an ex-date and a positive cash
\* amount: in the cash column, or in the plan text when the column has none
HasCashRow(f) ==
    \E i \in 1..Len(f.rows) :
        LET row == f.rows[i]
            in_column == f.cash_col # None /\ row.cash # None /\ RPos(row.cash[1])
        IN /\ row.ex # None
           /\ in_column \/ (f.has_plan /\ RPos(ParsedPlan[row.plan]))

\* the primary source produced an event
PrimaryProduced == div_primary[1].kind = "frame" /\ div_primary[1].has_ex /\ HasCashRow(div_primary[1])

MaxItems == 3

\* the loop `for c in codes: if c not in seen` of parse_input_to_codes
RECURSIVE DedupLoop(_, _)
DedupLoop(codes, res) ==
    IF codes = << >> THEN res
    ELSE DedupLoop(Tail(codes),
                   IF \E i \in 1..Len(res) : res[i] = Head(codes) THEN res
                   ELSE Append(res, Head(codes)))

\* the codes one part of the input adds to the list codes
PartCodes(part, name_to_code) ==
    LET keys == [i \in 1..Len(name_to_code) |-> name_to_code[i][1]]
        exact == FirstValue(name_to_code, {i \in DOMAIN keys : keys[i] = part})
        folded == FirstValue(name_to_code,
                             {i \in DOMAIN keys : lower(keys[i]) = lower(part)})
    IN IF isdigit(part) /\ Len(part) <= SymbolWidth THEN <<zfill(part, SymbolWidth)>>
       ELSE IF exact # None /\ exact[1] # << >> THEN exact
       ELSE folded

RECURSIVE PartsLoop(_, _)
PartsLoop(parts, name_to_code) ==
    IF parts = << >> THEN << >>
    ELSE PartCodes(Head(parts), name_to_code) \o PartsLoop(Tail(parts), name_to_code)

parse_input_to_codes(text, name_to_code) ==
    IF text = << >> THEN << >>
    ELSE DedupLoop(PartsLoop(parse_codes_input(text), name_to_code), << >>)

\* the name of 600519 in the static map
Name519 == static_map[1][1]

ItemAlphabet == {Code519, CodeOne, UnknownItem, Name519}

ItemLists == UNION {[1..n -> ItemAlphabet] : n \in 0..MaxItems}

\* the items typed into the desktop entry, separated by commas
RECURSIVE JoinItems(_)
JoinItems(its) ==
    IF its = << >> THEN << >>
    ELSE IF Len(its) = 1 THEN its[1]
    ELSE its[1] \o <<",">> \o JoinItems(Tail(its))

GuiProviderCases ==
    {[own |-> w, refDates |-> {},
      stub |-> Stub(CloseAnswer("close", <<10, 1>>), CloseAnswer("close", <<12, 1>>),
                    << >>, << >>, << >>),
      again |-> "same", info |-> n, listing |-> None] :
        w \in {HistRaises, HistFrame({1, 2, Today}, FALSE)},
        n \in {None, Some(<<"n">>)}}

InitGui ==
    /\ config_data = None
    /\ cfg \in [stocks : {<< >>}, start_date : {1}, end_date : {None}]
    /\ provider \in [{Code519, Code6(CodeOne)} -> GuiProviderCases]
    /\ \E l \in ItemLists :
          items \in {l, parse_input_to_codes(JoinItems(l), static_map)}
    /\ gui_pc = "start"
    /\ normalized = << >>
    /\ gui_rows = << >>
    /\ cli_pc = "idle"
    /\ cli_i = 1
    /\ rows = << >>
    /\ console = << >>
    /\ csv = None
    /\ cli_error = None
    /\ SymbolIdle
    /\ DividendsIdle
    /\ WindowIdle
    /\ CalcIdle
    /\ ExtIdle

NextGui == GuiResolve \/ GuiStock \/ GuiReturn

SpecGui == InitGui /\ [][NextGui]_vars

\* the labels of the items that resolve_to_code resolves, and of those it
\* does not, each in input order
Resolves(label) == resolve_to_code(label, static_map) \notin {None, Some(<< >>)}
KnownLabels == SelectSeq(Labels(items), Resolves)
UnknownLabels == SelectSeq(Labels(items), LAMBDA s : ~Resolves(s))

AbsentFields ==
    NumericFields \cup {"start_trade_date", "end_trade_date", "annualized_return",
                        "additional_shares_per_share", "additional_event_count",
                        "additional_value_per_share"}

\* C18: compute_for_codes returns as many rows as it was given items: first
\* one row for each item that does not resolve, in input order, with the
\* item as name, an empty code, error "Unknown stock name or code" and no
\* numeric field; then one row for each item that resolves, in input order,
\* a success row or an error row, with the resolved code and its name.
OneRowPerItem ==
    gui_pc = "returned" =>
        /\ Len(gui_rows) = Len(items)
        /\ Len(gui_rows) = Len(UnknownLabels) + Len(KnownLabels)
        /\ \A j \in 1..Len(UnknownLabels) :
              /\ gui_rows[j].name = Some(UnknownLabels[j])
              /\ gui_rows[j].code = Some(<< >>)
              /\ gui_rows[j].error = Some("Unknown stock name or code")
              /\ \A k \in AbsentFields : Get(gui_rows[j], k) = None
        /\ \A j \in 1..Len(KnownLabels) :
              LET r == gui_rows[Len(UnknownLabels) + j]
                  c == resolve_to_code(KnownLabels[j], static_map)[1]
              IN /\ r.code = Some(c)
                 /\ r.name = Some(get_stock_name(c, provider[c]))
                 /\ IsSuccessRow(r) \/ IsErrorRow(r)

\* the call has returned on a list with an unresolved item between two
\* items of one code, one of them given by name, and an unresolved item last
OneRowPerItemWitness ==
    /\ gui_pc = "returned"
    /\ MaxItems >= 3
    /\ \E l \in ItemLists :
          /\ items = l
          /\ Len(l) >= 3
          /\ SubSeq(l, 1, 3) = <<Name519, UnknownItem, CodeOne>>
    /\ Len(gui_rows) = Len(items)
    /\ \E j \in 1..Len(gui_rows) : IsSuccessRow(gui_rows[j])

\* C19: no two rows that compute_for_codes returns carry the same resolved
\* code, although the list of items names a code more than once.
ResolvedCodeInOneRow ==
    gui_pc = "returned" =>
        \A i, j \in 1..Len(gui_rows) :
            (i # j /\ gui_rows[i].code # Some(<< >>)) => gui_rows[i].code # gui_rows[j].code

(***************************************************************************)
(* cli.run from the configuration file on: load_config, AppConfig.from_dict *)
(* and the loop over the configured stocks.  A value of the dictionary     *)
(* that yaml.safe_load yields is a pair <<kind, content>>: "null" for      *)
(* None, "empty" for the empty string, "str" for another string (content   *)
(* Some(date) where it has the format %Y-%m-%d, None where it has not),    *)
(* "date" for a date object, "list" for a list; an item of the stocks list *)
(* is <<"dict", code>> for a mapping with the key code and <<"str", code>> *)
(* for a scalar.                                                           *)
(***************************************************************************)
StartDateRequired == "start_date is required in config.yaml"
NotIterable == "TypeError: 'NoneType' object is not iterable"
BadDateFormat == "ValueError: time data does not match format '%Y-%m-%d'"

\* d.get("stocks") without the default
RawStocksNoDefault(d) == IF "stocks" \in DOMAIN d THEN d.stocks ELSE <<"null", << >>>>

\* d.get("stocks", [])
RawStocks(d) == IF "stocks" \in DOMAIN d THEN d.stocks ELSE <<"list", << >>>>

\* d.get(key)
RawValue(d, key) == IF key \in DOMAIN d THEN d[key] ELSE <<"null", None>>

\* `not v` of a raw date value
IsFalsy(v) == v[1] \in {"null", "empty"}

_normalize_date(v) ==
    IF v[1] = "null" THEN Ok(None)
    ELSE IF v[1] = "date" THEN Ok(v[2])
    ELSE IF v[1] = "str" /\ v[2] # None THEN Ok(v[2])
    ELSE Raise(BadDateFormat)

from_dict(d) ==
    LET start_raw == RawValue(d, "start_date")
        end_raw == RawValue(d, "end_date")
        start_date == _normalize_date(start_raw)
        end_date == _normalize_date(end_raw)
    IN IF RawStocks(d)[1] = "null" THEN Raise(NotIterable)
       ELSE IF IsFalsy(start_raw) THEN Raise(StartDateRequired)
       ELSE IF ~start_date.ok THEN start_date
       ELSE IF ~end_date.ok THEN end_date
       ELSE Ok([stocks |-> [i \in 1..Len(RawStocks(d)[2]) |-> RawStocks(d)[2][i][2]],
                start_date |-> start_date.val[1],
                end_date |-> end_date.val])

\* load_config on a file that exists and holds the dictionary d
load_config(d) == from_dict(d)

Absent == <<"absent", None>>

\* the dictionary with the keys whose value is not Absent
ConfigDict(stocks, start_date, end_date) ==
    LET all == [k \in {"stocks", "start_date", "end_date"} |->
                   CASE k = "stocks" -> stocks
                     [] k = "start_date" -> start_date
                     [] OTHER -> end_date]
    IN [k \in {key \in DOMAIN all : all[key][1] # "absent"} |-> all[k]]

ConfigDicts ==
    {ConfigDict(st, sd, ed) :
        st \in {Absent, <<"null", << >>>>, <<"list", << >>>>,
                <<"list", <<<<"str", Code519>>>>>>,
                <<"list", <<<<"dict", Code519>>, <<"str", CodeOne>>>>>>},
        sd \in {Absent, <<"null", None>>, <<"empty", None>>, <<"str", None>>,
                <<"str", Some(1)>>, <<"date", Some(1)>>},
        ed \in {Absent, <<"null", None>>, <<"str", None>>, <<"str", Some(Today)>>}}

InitCli ==
    /\ config_data \in {Some(d) : d \in ConfigDicts}
    /\ cfg = [stocks |-> << >>, start_date |-> 1, end_date |-> None]
    /\ provider \in [{Code519, Code6(CodeOne)} -> GuiProviderCases]
    /\ items = << >>
    /\ gui_pc = "idle"
    /\ normalized = << >>
    /\ gui_rows = << >>
    /\ cli_pc = "config"
    /\ cli_i = 1
    /\ rows = << >>
    /\ console = << >>
    /\ csv = None
    /\ cli_error = None
    /\ SymbolIdle
    /\ DividendsIdle
    /\ WindowIdle
    /\ CalcIdle
    /\ ExtIdle

\* cfg = load_config(config_path)
CliLoadConfig ==
    /\ cli_pc = "config"
    /\ config_data # None
    /\ LET loaded == load_config(config_data[1])
       IN IF loaded.ok
          THEN cfg' = loaded.val /\ cli_pc' = "start" /\ cli_error' = cli_error
          ELSE cfg' = cfg /\ cli_pc' = "raised" /\ cli_error' = Some(loaded.err)
    /\ UNCHANGED <<config_data, provider, items, cli_i, rows, console, csv,
                   guiVars, otherVars>>

NextCli == CliLoadConfig \/ CliLoad \/ CliStock \/ CliPrint \/ CliSaveCsv

SpecCli == InitCli /\ [][NextCli]_vars

\* the configuration names no stock: no stocks key, or an empty list
NamesNoStock(d) == "stocks" \notin DOMAIN d \/ d.stocks = <<"list", << >>>>

\* the configuration has no start_date: no key, a null or an empty string
LacksStartDate(d) == "start_date" \notin DOMAIN d \/ d.start_date[1] \in {"null", "empty"}

\* the configuration has a start_date and its dates are dates
DatesAccepted(d) ==
    /\ ~LacksStartDate(d)
    /\ _normalize_date(RawValue(d, "start_date")).ok
    /\ _normalize_date(RawValue(d, "end_date")).ok

\* C20: cli.run on a configuration that names no stock, the stocks key
\* missing or its list empty, never gets as far as a row, a printed line or
\* a CSV file, which are what the provider queries of the loop lead to, and
\* once load_config has returned it ends with the error "No stocks
\* configured..."; on a configuration without start_date it ends inside
\* load_config with "start_date is required in config.yaml", before the
\* stocks are looked at.
NoStocksFailsBeforeProcessing ==
    config_data # None =>
        LET d == config_data[1]
        IN /\ NamesNoStock(d) =>
                /\ rows = << >> /\ console = << >> /\ csv = None
                /\ cli_pc \in {"config", "start", "raised"}
                /\ cli_pc = "raised" => cli_error # None
                /\ (cli_pc = "raised" /\ DatesAccepted(d)) =>
                        cli_error = Some(NoStocksConfigured)
           /\ (LacksStartDate(d) /\ RawStocks(d)[1] # "null") =>
                /\ cli_pc \in {"config", "raised"}
                /\ cli_pc = "raised" => cli_error = Some(StartDateRequired)
                /\ rows = << >> /\ console = << >> /\ csv = None

\* cli.run has ended with the error on a configuration without the stocks
\* key whose start_date is a date
NoStocksWitness ==
    /\ config_data # None
    /\ "stocks" \notin DOMAIN config_data[1]
    /\ "start_date" \in DOMAIN config_data[1]
    /\ cli_pc = "raised"
    /\ cli_error = Some(NoStocksConfigured)
    /\ rows = << >>

(***************************************************************************)
(* TotalReturnGUI: the two buttons of the desktop window.  A handler runs  *)
(* to its end on the one thread of the event loop, so each click is one    *)
(* step.  The window works on the same name map and provider answers as    *)
(* the web application of the model; start date 1, end date empty.         *)
(***************************************************************************)
MaxClicks == 4

\* self.rows after on_calculate, emptied where the click fails
RowsClearedOnFailure(old, codes, raises) ==
    IF codes = << >> \/ raises THEN << >>
    ELSE compute_for_codes(codes, 1, None, WebProvider)

\* self.rows after on_calculate: assigned only when compute_for_codes returns
RowsAfterCalculate(old, codes, raises) ==
    IF codes = << >> \/ raises THEN old
    ELSE compute_for_codes(codes, 1, None, WebProvider)

\* the texts typed into the stocks entry: nothing, a space, a code, an
\* unknown name, a code twice, a name of the map, a part of that name, a
\* code and an unknown name
DeskTexts ==
    {<< >>, <<" ">>, Code519, UnknownItem, Code519 \o <<",">> \o Code519, Name519,
     SubSeq(Name519, 1, 2), Code519 \o <<",">> \o UnknownItem}

Click(kind, text, raises) == [kind |-> kind, text |-> text, raises |-> raises]

InitDesktop ==
    /\ desk_rows = << >>
    /\ desk_dialog = None
    /\ desk_files = << >>
    /\ desk_last = None
    /\ desk_ok = None
    /\ desk_clicks = 0
    /\ DeskRestIdle

\* on_calculate with text in the stocks entry; raises: compute_for_codes or
\* the filling of the table raises
on_calculate(text, raises) ==
    /\ desk_clicks < MaxClicks
    /\ desk_clicks' = desk_clicks + 1
    /\ desk_last' = Some(Click("calculate", text, raises))
    /\ LET codes == parse_input_to_codes(strip(text), static_map)
       IN /\ desk_rows' = RowsAfterCalculate(desk_rows, codes, raises)
          /\ desk_dialog' = IF codes = << >> THEN Some("Input Error")
                            ELSE IF raises THEN Some("Runtime Error")
                            ELSE None
          /\ desk_ok' = IF codes = << >> \/ raises THEN desk_ok ELSE Some(desk_rows')
    /\ UNCHANGED <<desk_files, deskRest>>

on_export ==
    /\ desk_clicks < MaxClicks
    /\ desk_clicks' = desk_clicks + 1
    /\ desk_last' = Some(Click("export", << >>, FALSE))
    /\ IF desk_rows = << >>
       THEN desk_dialog' = Some("Export Error") /\ desk_files' = desk_files
       ELSE /\ desk_files' = Append(desk_files,
                   [i \in 1..Len(desk_rows) |-> CsvRow(desk_rows[i], CsvColumns(desk_rows))])
            /\ desk_dialog' = Some("Export")
    /\ UNCHANGED <<desk_rows, desk_ok, deskRest>>

NextDesktop ==
    \/ \E text \in DeskTexts, raises \in BOOLEAN : on_calculate(text, raises)
    \/ on_export

SpecDesktop == InitDesktop /\ [][NextDesktop]_vars

\* C21: whenever Calculate of the desktop window has run on a stocks text
\* that POST /calculate accepts, and nothing raised, the window holds the
\* rows POST /calculate returns for that text.
DesktopRowsAreWebRows ==
    (/\ desk_last # None
     /\ desk_last[1].kind = "calculate"
     /\ ~desk_last[1].raises
     /\ ~IsBlank(desk_last[1].text)) =>
        /\ desk_dialog = None
        /\ desk_rows = calculate_rows(strip(desk_last[1].text))

\* the click handled in this step
Clicked(kind) == desk_last' # None /\ desk_last'[1].kind = kind

DaysInMonth(y, m) ==
    IF m = 2 THEN (IF (y % 4 = 0 /\ y % 100 # 0) \/ y % 400 = 0 THEN 29 ELSE 28)
    ELSE IF m \in {4, 6, 9, 11} THEN 30
    ELSE 31

\* the directive %Y: four digits
MatchesYear(t) == Len(t) = 4 /\ isdigit(t)

\* the directive %m: 1[0-2]|0[1-9]|[1-9]
MatchesMonth(t) == isdigit(t) /\ Len(t) <= 2 /\ IntOf(t) \in 1..12

\* the directive %d: 3[01]|[12]\d|0[1-9]|[1-9]| [1-9]
MatchesDay(t) ==
    \/ isdigit(t) /\ Len(t) <= 2 /\ IntOf(t) \in 1..31
    \/ Len(t) = 2 /\ t[1] = " " /\ t[2] \in Digits \ {"0"}

\* datetime.strptime(text, "%Y-%m-%d")
strptime(text) ==
    LET parts == split(text, "-")
        day == IF parts[3][1] = " " THEN Tail(parts[3]) ELSE parts[3]
    IN IF Len(parts) # 3 \/ ~MatchesYear(parts[1]) \/ ~MatchesMonth(parts[2])
          \/ ~MatchesDay(parts[3])
       THEN Raise(BadDateFormat)
       ELSE IF IntOf(day) > DaysInMonth(IntOf(parts[1]), IntOf(parts[2]))
       THEN Raise("ValueError: day is out of range for month")
       ELSE Ok(<<IntOf(parts[1]), IntOf(parts[2]), IntOf(day)>>)

DigitChar == <<"0", "1", "2", "3", "4", "5", "6", "7", "8", "9">>

\* n written with at least width digits
RECURSIVE Padded(_, _)
Padded(n, width) ==
    IF n < 10 /\ width <= 1 THEN <<DigitChar[n + 1]>>
    ELSE Append(Padded(n \div 10, width - 1), DigitChar[(n % 10) + 1])

\* date.strftime("%Y-%m-%d")
strftime(date) == Padded(date[1], 4) \o <<"-">> \o Padded(date[2], 2) \o <<"-">> \o Padded(date[3], 2)

\* _normalize_date on a value that is not None: a text is validated and
\* returned as it is, a date object is formatted
NormalizeDateValue(v) ==
    IF v[1] = "str"
    THEN (IF strptime(v[2]).ok THEN Ok(v[2]) ELSE strptime(v[2]))
    ELSE Ok(strftime(v[2]))

YearTexts == {<<"2", "0", "2", "4">>, <<"2", "0", "2", "3">>, <<"9", "9", "9">>}
MonthTexts == {<<"1">>, <<"0", "1">>, <<"0", "2">>, <<"1", "2">>, <<"1", "3">>, <<"0">>}
DayTexts == {<<"5">>, <<"0", "5">>, <<" ", "5">>, <<"2", "9">>, <<"3", "0">>, <<"3", "2">>}
DateTexts ==
    {y \o <<sep>> \o m \o <<sep>> \o d :
        y \in YearTexts, m \in MonthTexts, d \in DayTexts, sep \in {"-", "/"}}
DateObjects == {<<y, m, d>> : y \in {2023, 2024}, m \in {1, 2, 12}, d \in {5, 28}}

InitDates ==
    /\ date_raw \in {<<"str", t>> : t \in DateTexts} \cup {<<"date", o>> : o \in DateObjects}
    /\ date_out = None
    /\ DatesRestIdle

NormalizeDate ==
    /\ date_out = None
    /\ date_raw[1] # "null"
    /\ date_out' = Some(NormalizeDateValue(date_raw))
    /\ UNCHANGED <<date_raw, datesRest>>

NextDates == NormalizeDate

SpecDates == InitDates /\ [][NextDates]_vars

\* four digits, a hyphen, two digits, a hyphen, two digits
IsCanonical(t) ==
    /\ Len(t) = 10
    /\ t[5] = "-" /\ t[8] = "-"
    /\ \A i \in {1, 2, 3, 4, 6, 7, 9, 10} : t[i] \in Digits

\* C23: a date that _normalize_date returns for the configuration is in
\* the form YYYY-MM-DD with zero-padded month and day, and a text that is
\* not in that form is rejected with an error.
ConfigDatesCanonical ==
    date_out # None =>
        /\ date_out[1].ok => IsCanonical(date_out[1].val)
        /\ (date_raw[1] = "str" /\ ~IsCanonical(date_raw[2])) => ~date_out[1].ok

(***************************************************************************)
(* Specification of sum_additional_shares_in_interval: frames of rows      *)
(* whose cells are missing, zero or positive amounts per 10 shares.        *)
(***************************************************************************)
MaxAddRows == 2

AddBonusRows ==
    {BonusRow(d, send, transfer) :
        d \in {None, Some(1), Some(2)}, send \in {None, Some(Zero), Some(<<5, 1>>)},
        transfer \in {None, Some(<<3, 1>>)}}
AddAllotFrames ==
    {<< >>, <<AllotRow(Some(2), Some(<<2, 1>>))>>, <<AllotRow(Some(2), Some(Zero))>>,
     <<AllotRow(None, Some(<<2, 1>>))>>, <<AllotRow(Some(3), Some(<<2, 1>>))>>}

InitAdditional ==
    /\ add_frames \in [bonus : UNION {[1..n -> AddBonusRows] : n \in 0..MaxAddRows},
                         allot : AddAllotFrames]
    /\ add_window \in {<<1, 2>>, <<2, 3>>}
    /\ add_out = None
    /\ AddRestIdle

SumAdditional ==
    /\ add_out = None
    /\ add_out' = Some(sum_additional_shares_in_interval(add_frames.bonus, add_frames.allot,
                                                         add_window[1], add_window[2]))
    /\ UNCHANGED <<add_frames, add_window, addRest>>

NextAdditional == SumAdditional

SpecAdditional == InitAdditional /\ [][NextAdditional]_vars

\* a tenth of a cell, nothing for a missing cell
Tenth(cell) == IF cell = None THEN Zero ELSE RQuot(cell[1], Ten)

\* the shares per share the rows of the two frames add
BonusAdded(i) == RAdd(Tenth(add_frames.bonus[i].send), Tenth(add_frames.bonus[i].transfer))
AllotAdded(i) == Tenth(add_frames.allot[i].allot)

Dated(row) == row.ex # None /\ add_window[1] < row.ex[1] /\ row.ex[1] <= add_window[2]

\* the rows that count: dated in (start_trade_date, end_trade_date], adding
\* a positive number of shares
CountedBonus ==
    {i \in 1..Len(add_frames.bonus) : Dated(add_frames.bonus[i]) /\ RPos(BonusAdded(i))}
CountedAllot ==
    {i \in 1..Len(add_frames.allot) : Dated(add_frames.allot[i]) /\ RPos(AllotAdded(i))}

RECURSIVE SumBonus(_)
SumBonus(idx) ==
    IF idx = {} THEN Zero ELSE RAdd(BonusAdded(Min(idx)), SumBonus(idx \ {Min(idx)}))
RECURSIVE SumAllot(_)
SumAllot(idx) ==
    IF idx = {} THEN Zero ELSE RAdd(AllotAdded(Min(idx)), SumAllot(idx \ {Min(idx)}))

\* C25: the count that sum_additional_shares_in_interval returns is the
\* number of notes in its description, which is empty exactly when the
\* count is 0; the count is the number of rows dated in (start_trade_date,
\* end_trade_date] that add a positive number of shares; the total is the
\* sum over these rows of (bonus + transfer)/10 and of allotment/10; and
\* the total is never negative.
AdditionalSharesTally ==
    add_out # None =>
        LET out == add_out[1]
        IN /\ out.count = Len(out.notes)
           /\ out.notes = << >> <=> out.count = 0
           /\ out.count = Cardinality(CountedBonus) + Cardinality(CountedAllot)
           /\ REq(out.total, RAdd(SumBonus(CountedBonus), SumAllot(CountedAllot)))
           /\ ~RPos(RSub(Zero, out.total))

\* two bonus rows and an allotment row counted, a third of the rows left out
AdditionalSharesWitness ==
    /\ add_out # None
    /\ add_out[1].count = 2
    /\ Len(add_frames.bonus) = 2
    /\ Cardinality(CountedBonus) = 1
    /\ Cardinality(CountedAllot) = 1
    /\ add_out[1].total = <<1, 1>>

(***************************************************************************)
(* The provider queries behind one row of cli.run, along the path on which *)
(* every query answers: which AkShare function is called with which        *)
(* symbol.                                                                 *)
(***************************************************************************)
MaxQueryCodeLen == 3

QueryCodes == ExampleCodes \cup UNION {[1..n -> {"6", "s"}] : n \in 0..MaxQueryCodeLen}

Query(function, sym) == <<function, sym>>

InitQueries ==
    /\ q_code \in QueryCodes
    /\ q_pc = "name"
    /\ q_log = << >>
    /\ q_row = None
    /\ QueryRestIdle

\* cli.run line 93: code = str(s.code).zfill(6)
RunCode == zfill(q_code, SymbolWidth)

\* get_stock_name(code): code6 = str(code).zfill(6), then the
\* individual-info query on code6
QueryName ==
    /\ q_pc = "name"
    /\ q_log' = Append(q_log, Query("stock_individual_info_em", zfill(RunCode, SymbolWidth)))
    /\ q_pc' = "window"
    /\ UNCHANGED <<q_code, q_row, queryRest>>

\* derive_trade_window_from_prices(code, ...): get_hist_unadjusted_range
QueryWindow ==
    /\ q_pc = "window"
    /\ q_log' = Append(q_log, Query("stock_zh_a_hist", to_exchange_symbol(RunCode).val))
    /\ q_pc' = "closes"
    /\ UNCHANGED <<q_code, q_row, queryRest>>

\* compute_interval_total_return: get_unadjusted_close_on for the two dates
QueryCloses ==
    /\ q_pc = "closes"
    /\ q_log' = q_log \o <<Query("stock_zh_a_hist", to_exchange_symbol(RunCode).val),
                            Query("stock_zh_a_hist", to_exchange_symbol(RunCode).val)>>
    /\ q_pc' = "dividends"
    /\ UNCHANGED <<q_code, q_row, queryRest>>

\* get_dividends(code): the primary source and, when it has no event, the
\* secondary one, both on str(code)
QueryDividends(secondary) ==
    /\ q_pc = "dividends"
    /\ q_log' = q_log \o <<Query("stock_history_dividend_detail", RunCode)>>
                      \o (IF secondary THEN <<Query("stock_fhps_detail_ths", RunCode)>>
                          ELSE << >>)
    /\ q_pc' = "additional"
    /\ UNCHANGED <<q_code, q_row, queryRest>>

\* sum_additional_shares_in_interval(code, ...): the two indicators on
\* str(code); once in the calculator and once more in cli.run
QueryAdditional ==
    /\ q_pc \in {"additional", "again"}
    /\ q_log' = q_log \o <<Query("stock_history_dividend_detail", RunCode),
                            Query("stock_history_dividend_detail", RunCode)>>
    /\ q_pc' = IF q_pc = "additional" THEN "again" ELSE "row"
    /\ UNCHANGED <<q_code, q_row, queryRest>>

\* row["code"] = code
EmitRow ==
    /\ q_pc = "row"
    /\ q_row' = Some(RunCode)
    /\ q_pc' = "done"
    /\ UNCHANGED <<q_code, q_log, queryRest>>

NextQueries ==
    \/ QueryName
    \/ QueryWindow
    \/ QueryCloses
    \/ \E secondary \in BOOLEAN : QueryDividends(secondary)
    \/ QueryAdditional
    \/ EmitRow

SpecQueries == InitQueries /\ [][NextQueries]_vars

\* C27: every provider query issued for a stock carries one and the same
\* symbol, six digits long, and the row reports that symbol as its code;
\* for the configured code sh600519 it is 600519.
OneSymbolPerStock ==
    /\ \A i, j \in 1..Len(q_log) : q_log[i][2] = q_log[j][2]
    /\ \A i \in 1..Len(q_log) : Len(q_log[i][2]) = SymbolWidth /\ isdigit(q_log[i][2])
    /\ q_row # None => \A i \in 1..Len(q_log) : q_row = Some(q_log[i][2])
    /\ (q_row # None /\ q_code = <<"s", "h", "6", "0", "0", "5", "1", "9">>) => q_row = Some(Code519)

(***************************************************************************)
(* An end_date before the start_date.                                      *)
(***************************************************************************)
\* the request's end_date is given and lies before its start_date
EndBeforeStart == request.end_date # None /\ request.end_date[1] < request.start_date

\* the configuration dictionary that carries the request's two dates
RequestConfig ==
    ConfigDict(<<"list", <<<<"str", Code519>>>>>>,
               <<"str", Some(request.start_date)>>,
               <<"str", request.end_date>>)

\* C28: with an end_date before the start_date the window derivation fails
\* whatever the provider answers (own history or reference stocks) and
\* returns no window, while load_config accepts the configuration and
\* keeps both dates.
EndBeforeStartFails ==
    EndBeforeStart =>
        /\ window # None => ~window[1].ok
        /\ load_config(RequestConfig).ok
        /\ load_config(RequestConfig).val.start_date = request.start_date
        /\ load_config(RequestConfig).val.end_date = request.end_date

\* the derivation has failed for such a request on a history that has
\* trading days on both sides: on or after start_date and on or before
\* end_date
EndBeforeStartWitness ==
    /\ EndBeforeStart
    /\ window # None
    /\ ~window[1].ok
    /\ \E d \in UsedDates : d >= request.start_date
    /\ \E d \in UsedDates : d <= request.end_date[1]

(***************************************************************************)
(* gui_app.build_code_maps.  A dict is the sequence of its <<key, value>>  *)
(* pairs in insertion order.  A provider answer is a raised exception or a *)
(* frame: cols tells whether a code column and a name column were both     *)
(* found among the candidates, rows are its <<code, name>> rows.           *)
(***************************************************************************)
MaxListRows == 2

\* k in d, d[k], d[k] = v
DictHas(d, k) == \E i \in 1..Len(d) : d[i][1] = k
DictGet(d, k) == d[CHOOSE i \in 1..Len(d) : d[i][1] = k][2]
DictSet(d, k, v) ==
    IF DictHas(d, k)
    THEN [i \in 1..Len(d) |-> IF d[i][1] = k THEN <<k, v>> ELSE d[i]]
    ELSE Append(d, <<k, v>>)

\* if k not in d: d[k] = v
DictSetIfAbsent(d, k, v) == IF DictHas(d, k) THEN d ELSE Append(d, <<k, v>>)

\* df[code_col].astype(str).str[-6:].str.zfill(6), then str(row[code_col]).zfill(6)
ListingCode(c) == zfill(zfill(LastChars(c, SymbolWidth), SymbolWidth), SymbolWidth)

\* df is not None and not df.empty and code_col and name_col
Usable(answer) == answer.kind = "frame" /\ answer.rows # << >> /\ answer.cols

\* the loop over the primary listing; maps = <<name_to_code, code_to_name>>
RECURSIVE PrimaryRows(_, _)
PrimaryRows(listing, maps) ==
    IF listing = << >> THEN maps
    ELSE LET cd == ListingCode(Head(listing)[1])
             nm == strip(Head(listing)[2])
         IN PrimaryRows(Tail(listing),
                IF nm # << >>
                THEN <<DictSet(maps[1], nm, cd), DictSet(maps[2], cd, nm)>>
                ELSE maps)

\* the loop over the real-time spot list
RECURSIVE SpotRows(_, _)
SpotRows(listing, maps) ==
    IF listing = << >> THEN maps
    ELSE LET cd == ListingCode(Head(listing)[1])
             nm == strip(Head(listing)[2])
         IN SpotRows(Tail(listing),
                IF nm # << >>
                THEN <<DictSetIfAbsent(maps[1], nm, cd), DictSetIfAbsent(maps[2], cd, nm)>>
                ELSE maps)

\* the loop over static_map
RECURSIVE StaticRows(_, _)
StaticRows(entries, maps) ==
    IF entries = << >> THEN maps
    ELSE StaticRows(Tail(entries),
            <<DictSetIfAbsent(maps[1], Head(entries)[1], Head(entries)[2]),
              DictSetIfAbsent(maps[2], Head(entries)[2], Head(entries)[1])>>)

ListRows == {Code519, CodeOne} \X {Name519, <<"x", " ">>, <<" ">>}
ListAnswers ==
    {NoAnswer, [kind |-> "frame", cols |-> FALSE, rows |-> <<<<Code519, Name519>>>>]}
    \cup {[kind |-> "frame", cols |-> TRUE, rows |-> r] :
             r \in UNION {[1..n -> ListRows] : n \in 0..MaxListRows}}

InitMaps ==
    /\ map_primary \in ListAnswers
    /\ map_spot \in ListAnswers
    /\ map_pc = "primary"
    /\ map_name_to_code = << >>
    /\ map_code_to_name = << >>
    /\ map_log = << >>
    /\ MapsRestIdle

\* the primary mapping via stock_info_a_code_name
MapsPrimary ==
    /\ map_pc = "primary"
    /\ LET maps == IF Usable(map_primary)
                   THEN PrimaryRows(map_primary.rows, <<map_name_to_code, map_code_to_name>>)
                   ELSE <<map_name_to_code, map_code_to_name>>
       IN /\ map_name_to_code' = maps[1]
          /\ map_code_to_name' = maps[2]
          /\ map_pc' = IF maps[1] = << >> THEN "spot" ELSE "static"
    /\ map_log' = Append(map_log, "stock_info_a_code_name")
    /\ UNCHANGED <<map_primary, map_spot, mapsRest>>

\* if not name_to_code: the fallback via stock_zh_a_spot_em
MapsSpot ==
    /\ map_pc = "spot"
    /\ LET maps == IF Usable(map_spot)
                   THEN SpotRows(map_spot.rows, <<map_name_to_code, map_code_to_name>>)
                   ELSE <<map_name_to_code, map_code_to_name>>
       IN /\ map_name_to_code' = maps[1]
          /\ map_code_to_name' = maps[2]
    /\ map_pc' = "static"
    /\ map_log' = Append(map_log, "stock_zh_a_spot_em")
    /\ UNCHANGED <<map_primary, map_spot, mapsRest>>

\* the static entries, then return name_to_code, code_to_name
MapsStatic ==
    /\ map_pc = "static"
    /\ LET maps == StaticRows(static_map, <<map_name_to_code, map_code_to_name>>)
       IN /\ map_name_to_code' = maps[1]
          /\ map_code_to_name' = maps[2]
    /\ map_pc' = "done"
    /\ UNCHANGED <<map_primary, map_spot, map_log, mapsRest>>

NextMaps == MapsPrimary \/ MapsSpot \/ MapsStatic

SpecMaps == InitMaps /\ [][NextMaps]_vars

\* every pair of fwd is the reverse of a pair of bwd
InverseOf(fwd, bwd) ==
    \A i \in 1..Len(fwd) : DictHas(bwd, fwd[i][2]) /\ DictGet(bwd, fwd[i][2]) = fwd[i][1]

\* the entries the primary listing alone yields
PrimaryEntries ==
    IF Usable(map_primary) THEN PrimaryRows(map_primary.rows, <<<< >>, << >>>>)
    ELSE <<<< >>, << >>>>

\* the entries the two provider sources yield together
ProviderEntries ==
    IF PrimaryEntries[1] = << >> /\ Usable(map_spot)
    THEN SpotRows(map_spot.rows, PrimaryEntries)
    ELSE PrimaryEntries

\* every pair of the dict before is still a pair of the dict after
Kept(before, after) ==
    \A i \in 1..Len(before) :
        DictHas(after, before[i][1]) /\ DictGet(after, before[i][1]) = before[i][2]

\* C29: the returned maps are inverse to each other (code_to_name[
\* name_to_code[n]] = n for every name, name_to_code[code_to_name[c]] = c
\* for every code), the static entries override no entry the provider
\* sources supplied, and the spot source is consulted only when the primary
\* listing produced no entry.
CodeMapsBidirectional ==
    /\ map_pc = "done" =>
          /\ InverseOf(map_name_to_code, map_code_to_name)
          /\ InverseOf(map_code_to_name, map_name_to_code)
          /\ Kept(ProviderEntries[1], map_name_to_code)
          /\ Kept(ProviderEntries[2], map_code_to_name)
    /\ (\E i \in 1..Len(map_log) : map_log[i] = "stock_zh_a_spot_em")
          => PrimaryEntries[1] = << >>

\* the static entries and the spot source only fill gaps
StaticAndSpotOnlyFillGaps ==
    /\ map_pc = "done" =>
          /\ Kept(ProviderEntries[1], map_name_to_code)
          /\ Kept(ProviderEntries[2], map_code_to_name)
          /\ \A i \in 1..Len(static_map) :
                /\ DictHas(map_name_to_code, static_map[i][1])
                /\ DictHas(map_code_to_name, static_map[i][2])
    /\ (\E i \in 1..Len(map_log) : map_log[i] = "stock_zh_a_spot_em")
          => PrimaryEntries[1] = << >>

(***************************************************************************)
(* cli.get_stock_name against the provider's answers.  The answer to the   *)
(* individual-info query is a raised exception or a frame: cols tells      *)
(* whether it has the columns item and value, rows are its <<item, value>> *)
(* rows; a value is a text <<"str", text>> or another object               *)
(* <<"other", << >>>>.  The items 股票简称, 证券简称 and 总市值 are written *)
(* "gpjc", "zqjc" and "zsz".                                                *)
(***************************************************************************)
NameItems == <<"gpjc", "SECURITY_NAME_ABBR", "zqjc">>

\* df.loc[df["item"] == cand].iloc[0]["value"], for a cand that has a row
FirstItemValue(table, cand) ==
    table[Min({i \in 1..Len(table) : table[i][1] = cand})][2]

\* the loop over the candidate items: Some(name_val.strip()) at the return
RECURSIVE ItemLoop(_, _)
ItemLoop(cands, table) ==
    IF cands = << >> THEN None
    ELSE IF /\ \E i \in 1..Len(table) : table[i][1] = Head(cands)
            /\ FirstItemValue(table, Head(cands))[1] = "str"
            /\ strip(FirstItemValue(table, Head(cands))[2]) # << >>
         THEN Some(strip(FirstItemValue(table, Head(cands))[2]))
         ELSE ItemLoop(Tail(cands), table)

\* attempt 1: the name the individual-info answer yields, None on a failure
\* or a miss
InfoName(answer) ==
    IF Usable(answer) THEN ItemLoop(NameItems, answer.rows) ELSE None

\* attempt 2: the name the market-wide listing yields for code6
ListingName(answer, code6) ==
    IF ~Usable(answer) THEN None
    ELSE LET match == {i \in 1..Len(answer.rows) :
                          zfill(LastChars(answer.rows[i][1], SymbolWidth), SymbolWidth) = code6}
         IN IF match = {} THEN None
            ELSE IF strip(answer.rows[Min(match)][2]) = << >> THEN None
            ELSE Some(strip(answer.rows[Min(match)][2]))

InfoRows ==
    {"gpjc", "zqjc", "zsz"} \X {<<"str", <<"y", " ">>>>, <<"str", <<" ">>>>, <<"other", << >>>>}
InfoAnswers ==
    {NoAnswer, [kind |-> "frame", cols |-> FALSE, rows |-> <<<<"gpjc", <<"str", <<"y">>>>>>>>]}
    \cup {[kind |-> "frame", cols |-> TRUE, rows |-> r] :
             r \in UNION {[1..n -> InfoRows] : n \in 0..MaxListRows}}
NameListings ==
    {NoAnswer,
     [kind |-> "frame", cols |-> FALSE, rows |-> <<<<Code519, Name519>>>>],
     [kind |-> "frame", cols |-> TRUE, rows |-> << >>],
     [kind |-> "frame", cols |-> TRUE, rows |-> <<<<Code519, Name519>>>>],
     [kind |-> "frame", cols |-> TRUE,
      rows |-> <<<<Code519, <<" ">>>>, <<Code519, Name519>>>>],
     [kind |-> "frame", cols |-> TRUE,
      rows |-> <<<<CodeOne, <<"x", " ">>>>, <<Code519, Name519>>>>]}

InitName ==
    /\ nm_code \in {Code519, CodeOne}
    /\ nm_info \in InfoAnswers
    /\ nm_listing \in NameListings
    /\ nm_pc = "info"
    /\ nm_log = << >>
    /\ nm_out = None
    /\ NameRestIdle

\* attempt 1, returning the name it finds
NameInfo ==
    /\ nm_pc = "info"
    /\ nm_log' = Append(nm_log, <<"stock_individual_info_em", zfill(nm_code, SymbolWidth)>>)
    /\ IF InfoName(nm_info) # None
       THEN /\ nm_out' = Some(Ok(get_stock_name(zfill(nm_code, SymbolWidth),
                                    [info |-> InfoName(nm_info), listing |-> None])))
            /\ nm_pc' = "done"
       ELSE /\ nm_out' = nm_out
            /\ nm_pc' = "listing"
    /\ UNCHANGED <<nm_code, nm_info, nm_listing, nameRest>>

\* attempt 2, then return code6
NameListing ==
    /\ nm_pc = "listing"
    /\ nm_log' = Append(nm_log, <<"stock_info_a_code_name", << >>>>)
    /\ nm_out' = Some(Ok(get_stock_name(zfill(nm_code, SymbolWidth),
                            [info |-> None,
                             listing |-> ListingName(nm_listing, zfill(nm_code, SymbolWidth))])))
    /\ nm_pc' = "done"
    /\ UNCHANGED <<nm_code, nm_info, nm_listing, nameRest>>

NextName == NameInfo \/ NameListing

SpecName == InitName /\ [][NextName]_vars

\* the recognised items, by position in NameItems, for which the info
\* answer holds a non-blank text
HeldItems ==
    {j \in 1..Len(NameItems) :
        /\ nm_info.kind = "frame"
        /\ nm_info.cols
        /\ \E i \in 1..Len(nm_info.rows) : nm_info.rows[i][1] = NameItems[j]
        /\ FirstItemValue(nm_info.rows, NameItems[j])[1] = "str"
        /\ \E k \in 1..Len(FirstItemValue(nm_info.rows, NameItems[j])[2]) :
              FirstItemValue(nm_info.rows, NameItems[j])[2][k] \notin Whitespace}

\* the rows of the listing that carry the code of the call
ListedRows ==
    IF nm_listing.kind = "frame" /\ nm_listing.cols
    THEN {i \in 1..Len(nm_listing.rows) :
             ListingCode(nm_listing.rows[i][1]) = zfill(nm_code, SymbolWidth)}
    ELSE {}

\* C30: get_stock_name ends without an exception and with a non-empty
\* text: the stripped value of the first recognised item with a non-blank
\* text when the individual-info query holds one; otherwise the stripped
\* name of the listing's row for the code when that is non-blank; otherwise
\* the zero-padded code.  The listing is queried only after the
\* individual-info query, and only when that yielded no name.
NameNeverFails ==
    /\ \A i \in 1..Len(nm_log) :
          nm_log[i][1] = "stock_info_a_code_name" =>
              /\ i = 2
              /\ nm_log[1] = <<"stock_individual_info_em", zfill(nm_code, SymbolWidth)>>
              /\ HeldItems = {}
    /\ nm_pc = "done" =>
          /\ nm_out # None
          /\ nm_out[1].ok
          /\ nm_out[1].val # << >>
          /\ IF HeldItems # {}
             THEN /\ nm_out[1].val =
                        strip(FirstItemValue(nm_info.rows, NameItems[Min(HeldItems)])[2])
                  /\ Len(nm_log) = 1
             ELSE /\ Len(nm_log) = 2
                  /\ IF ListedRows # {} /\ strip(nm_listing.rows[Min(ListedRows)][2]) # << >>
                     THEN nm_out[1].val = strip(nm_listing.rows[Min(ListedRows)][2])
                     ELSE nm_out[1].val = zfill(nm_code, SymbolWidth)

\* the three ways out have been taken: here the last one, a short code
\* padded after an info answer with only a blank recognised value and a
\* listing that lacks the code
NameNeverFailsWitness ==
    /\ nm_pc = "done"
    /\ nm_code = CodeOne
    /\ nm_out = Some(Ok(<<"0", "0", "0", "0", "0", "1">>))
    /\ nm_info.kind = "frame"
    /\ \E i \in 1..Len(nm_info.rows) :
          nm_info.rows[i][1] = "gpjc" /\ nm_info.rows[i][2] = <<"str", <<" ">>>>
    /\ nm_listing.kind = "frame"
    /\ nm_listing.rows # << >>
    /\ nm_listing.cols

====
